---------------------------- MODULE Spec2Model ----------------------------
(***************************************************************************)
(* The Open-Loop CL scheduling pass of pymtl3 and the method cursor it     *)
(* installs on the root component.                                         *)
(*                                                                         *)
(*   src/pymtl3/passes/autotick/OpenLoopCLPass.py  (the pass, the wrapper) *)
(*   src/pymtl3/passes/OpenLoopCLPass.py           (normal_tick)           *)
(*                                                                         *)
(* The pass is a straight-line function: the model follows it phase by     *)
(* phase with a program counter pc.  Python values are modelled as:        *)
(*   objects (update blocks, callee ports, raw methods)  strings           *)
(*   tuples (u, v)                                       <<u, v>>          *)
(*   lists                                               sequences         *)
(*   dicts                                               functions         *)
(*   lists indexed from 0 (SCCs, schedule)               functions on 0..n *)
(*                                                       or 1-based seqs   *)
(*                                                       (stated at each)  *)
(***************************************************************************)
EXTENDS Integers, Sequences, FiniteSets, TLC

(***************************************************************************)
(* Bounds of the model.                                                    *)
(***************************************************************************)
\* at most this many constraints (all_constraints and
\* top_level_callee_constraints together) in an input of the pass
MaxConstraints == 2
\* runtime operations are taken while num_cycles_executed is below this
MaxCycles == 2
\* tick() calls counted before the first callee-port call
MaxTicks == 3
\* a trigger variable of a super-block run changes in at most this many
\* passes, or in every pass
MaxChanging == 101

(***************************************************************************)
(* Generic helpers for Python lists and dicts.                             *)
(***************************************************************************)
Range(s) == { s[i] : i \in 1..Len(s) }

Reverse(s) == [ i \in 1..Len(s) |-> s[Len(s) + 1 - i] ]

EmptyDict == [ x \in {} |-> 0 ]

\* the subsets of S with at most n elements
RECURSIVE SubsetsUpTo(_, _)
SubsetsUpTo(S, n) ==
  IF n = 0 \/ S = {} THEN { {} }
  ELSE LET x == CHOOSE y \in S : TRUE
           rest == SubsetsUpTo(S \ {x}, n)
           less == SubsetsUpTo(S \ {x}, n - 1)
       IN  rest \cup { T \cup {x} : T \in less }

(***************************************************************************)
(* The objects of the modelled designs.                                    *)
(*   A, B   update blocks            F  an update_ff block                 *)
(*   P      a normal callee port     R, M  rdy and method port of the      *)
(*          non-blocking interface ifc                                     *)
(*   p, r, m the raw methods behind P, R, M;  q a method of no top-level   *)
(*          callee port                                                    *)
(***************************************************************************)
Blocks == { "A", "B" }
FFBlocks == { "F" }
Ports == { "P", "R", "M" }
RawMethods == { "p", "r", "m", "q" }

\* x.__name__ : the order Python's sorted( key = __name__ ) sorts by
NameRank ==
  [ x \in Blocks \cup FFBlocks \cup Ports |->
      CASE x = "A" -> 1 [] x = "B" -> 2 [] x = "F" -> 3
        [] x = "M" -> 4 [] x = "P" -> 5 [] x = "R" -> 6 ]

\* isinstance( x, CalleePort )
IsCalleePort(x) == x \in Ports

VARIABLES
  pc,                     \* the phase of the pass, or "sim" once it returned
  top,                    \* the root component and its _dag (the input)
  todo,                   \* constraints the two graph loops have not visited
  V, E, G, G_T,           \* lines 47-121
  method_callee_mapping, method_guard_mapping, guard_method_mapping,
  PO, visited,            \* lines 133-152
  SCCs, v_SCC,            \* lines 156-174
  G_new, InD, Q, scc_pred, scc_schedule,      \* lines 178-219
  update_schedule,        \* lines 227-338
  schedule, schedule_no_method, mapping, wrappers,  \* lines 355-450
  tick,                   \* top.tick
  new_schedule_index, orig_schedule_index, num_cycles_executed,
  hist,                   \* the last two runtime operations, newest first
  ticks_only,             \* tick() calls so far, while no port was called
  wrapped_SCC,            \* one run of a generated super-block
  roots                   \* the roots the pass was applied to before

inputVars == << top >>
graphVars == << todo, V, E, G, G_T, method_callee_mapping,
                method_guard_mapping, guard_method_mapping >>
sccVars   == << PO, visited, SCCs, v_SCC >>
topoVars  == << G_new, InD, Q, scc_pred, scc_schedule >>
schedVars == << update_schedule, schedule, schedule_no_method, mapping,
                wrappers, tick >>
cursorVars == << new_schedule_index, orig_schedule_index,
                 num_cycles_executed >>
runVars   == << hist, ticks_only >>

vars == << pc, inputVars, graphVars, sccVars, topoVars, schedVars,
           cursorVars, runVars, wrapped_SCC, roots >>

(***************************************************************************)
(* Inputs.  top carries what the pass reads from the root component:       *)
(*   final_upblks, update_ff          top._dag.final_upblks,               *)
(*                                    top.get_all_update_ff()              *)
(*   callee_ports, nb_ifcs            the two get_all_object_filter calls  *)
(*   method                           x.method of every callee port        *)
(*   all_constraints, top_level_callee_constraints     top._dag            *)
(***************************************************************************)
TheIfc == [ method |-> "M", rdy |-> "R" ]

RawOf == [ x \in Ports |-> CASE x = "P" -> "p" [] x = "R" -> "r" [] x = "M" -> "m" ]

\* candidate entries of top._dag.all_constraints: orderings between update
\* blocks, between a block and the method port, and with the ff block F
\* (which is not in V)
AllConstraintPool ==
  { c \in { "A", "B", "M" } \X { "A", "B", "M" } : c[1] # c[2] }
    \cup { <<"A", "F">>, <<"F", "B">> }

\* candidate entries of top._dag.top_level_callee_constraints: orderings
\* between update blocks and actual methods, at least one side a method
CalleeConstraintPool ==
  { c \in { "A", "B", "r", "m" } \X { "A", "B", "r", "m" } :
      c[1] # c[2] /\ ~ (c[1] \in Blocks /\ c[2] \in Blocks) }
    \cup { <<"p", "A">>, <<"A", "p">>, <<"A", "q">> }

\* a constraint is tagged with the set it belongs to
TaggedPool ==
  { <<"all", c>> : c \in AllConstraintPool }
    \cup { <<"callee", c>> : c \in CalleeConstraintPool }

MkTop(cs) ==
  [ final_upblks |-> Blocks \cup FFBlocks,
    update_ff    |-> FFBlocks,
    callee_ports |-> Ports,
    nb_ifcs      |-> { TheIfc },
    method       |-> RawOf,
    has_all_constraints |-> TRUE,
    all_constraints |-> { c[2] : c \in { d \in cs : d[1] = "all" } },
    top_level_callee_constraints |->
                        { c[2] : c \in { d \in cs : d[1] = "callee" } } ]

\* assignments of raw methods in which two of the three ports hold one
\* method object: P and the rdy, the method and the rdy, P and the method
DuplicateRaws ==
  { [ RawOf EXCEPT !["R"] = "p" ], [ RawOf EXCEPT !["R"] = "m" ],
    [ RawOf EXCEPT !["M"] = "p" ] }

\* the constraints of the designs with a duplicated raw method
DuplicatePool ==
  { << "callee", << "A", "p" >> >>, << "callee", << "A", "m" >> >> }

DuplicateInputs ==
  { [ MkTop(cs) EXCEPT !.method = raw ] :
      cs \in SUBSET DuplicatePool, raw \in DuplicateRaws }

\* a root no GenDAGPass has run on: top._dag has no all_constraints
UnpreparedInputs == { [ MkTop({}) EXCEPT !.has_all_constraints = FALSE ] }

PassInputs ==
  { MkTop(cs) : cs \in SubsetsUpTo(TaggedPool, MaxConstraints) }
    \cup DuplicateInputs \cup UnpreparedInputs

\* getattr of an attribute that does not exist: top has no _sched /
\* the object has no such attribute
NoSched == -2
NoAttr == -3


(***************************************************************************)
(* __call__ (lines 36-42) and the start of                                 *)
(* schedule_with_top_level_callee (line 47-48).                            *)
(***************************************************************************)
\* mutant of PassOrderError: the exception names no attribute
PassOrderError_unnamed(var) == "PassOrderError()"

\* line 38: the exception raised, with its argument
PassOrderError(var) == "PassOrderError(" \o var \o ")"

Call ==
  /\ pc = "start"
  /\ IF ~ top.has_all_constraints
     THEN /\ pc' = PassOrderError("all_constraints")
          /\ UNCHANGED << V, E, new_schedule_index, orig_schedule_index >>
     ELSE /\ pc' = "callees"
          /\ new_schedule_index' = NoAttr
          /\ orig_schedule_index' = NoAttr
          /\ V' = top.final_upblks \ top.update_ff
          /\ E' = {}
  /\ UNCHANGED << inputVars, todo, G, G_T, method_callee_mapping,
                  method_guard_mapping, guard_method_mapping, sccVars,
                  topoVars, schedVars, num_cycles_executed, runVars >>
  /\ UNCHANGED << wrapped_SCC, roots >>

(***************************************************************************)
(* Lines 51-91: the callee ports and non-blocking interfaces of the root.  *)
(***************************************************************************)
\* x.in_non_blocking_interface()
InNonBlockingInterface(t, x) ==
  \E ifc \in t.nb_ifcs : x = ifc.method \/ x = ifc.rdy

NormalCalleePorts(t) ==
  { x \in t.callee_ports : ~ InNonBlockingInterface(t, x) }

\* lines 67-72: the assert fails when two normal ports hold one raw method
NormalPortsAssertOk(t) ==
  \A x, y \in NormalCalleePorts(t) : t.method[x] = t.method[y] => x = y

\* method_callee_mapping after the loop of lines 67-72
NormalPortMapping(t) ==
  [ mm \in { t.method[x] : x \in NormalCalleePorts(t) } |->
      CHOOSE x \in NormalCalleePorts(t) : t.method[x] = mm ]

\* lines 83-88 for one interface: the method is asserted new, then the
\* method and the rdy are entered (the rdy without an assert)
IfcAssertOk(t, mcm, ifc) == t.method[ifc.method] \notin DOMAIN mcm

AddIfcMapping(t, mcm, ifc) ==
  LET m  == t.method[ifc.method]
      r  == t.method[ifc.rdy]
      m1 == [ k \in DOMAIN mcm \cup {m} |-> IF k = m THEN ifc.method ELSE mcm[k] ]
  IN  [ k \in DOMAIN m1 \cup {r} |-> IF k = r THEN ifc.rdy ELSE m1[k] ]

\* the loop of lines 76-88 over the interfaces in the order ifcs
RECURSIVE IfcLoop(_, _, _)
IfcLoop(t, mcm, ifcs) ==
  IF ifcs = <<>> THEN [ ok |-> TRUE, mcm |-> mcm ]
  ELSE IF ~ IfcAssertOk(t, mcm, Head(ifcs)) THEN [ ok |-> FALSE, mcm |-> mcm ]
  ELSE IfcLoop(t, AddIfcMapping(t, mcm, Head(ifcs)), Tail(ifcs))

\* the orders a set can be iterated in
Orders(S) ==
  { s \in [ 1..Cardinality(S) -> S ] : Range(s) = S }

\* the loop that follows the graph construction of lines 93-121
PhaseAfterCallees(t) ==
  IF t.all_constraints # {} THEN "constraints"
  ELSE IF t.top_level_callee_constraints # {} THEN "callee_constraints"
  ELSE "dfs"

CollectCallees ==
  /\ pc = "callees"
  /\ \E ifcs \in Orders(top.nb_ifcs) :
       LET res == IfcLoop(top, NormalPortMapping(top), ifcs)
           V1  == V \cup NormalCalleePorts(top)
                    \cup { x.method : x \in top.nb_ifcs }
                    \cup { x.rdy : x \in top.nb_ifcs }
       IN  IF ~ NormalPortsAssertOk(top) \/ ~ res.ok
           THEN /\ pc' = "AssertionError"
                /\ UNCHANGED << todo, V, E, G, G_T, method_callee_mapping,
                                method_guard_mapping, guard_method_mapping >>
           ELSE /\ pc' = PhaseAfterCallees(top)
                /\ V' = V1
                /\ E' = { << x.rdy, x.method >> : x \in top.nb_ifcs }
                /\ method_callee_mapping' = res.mcm
                /\ method_guard_mapping' =
                     [ k \in { x.method : x \in top.nb_ifcs } |->
                         (CHOOSE x \in top.nb_ifcs : x.method = k).rdy ]
                /\ guard_method_mapping' =
                     [ k \in { x.rdy : x \in top.nb_ifcs } |->
                         (CHOOSE x \in top.nb_ifcs : x.rdy = k).method ]
                /\ G' = [ v \in V1 |-> <<>> ]
                /\ G_T' = [ v \in V1 |-> <<>> ]
                /\ todo' = IF top.all_constraints # {}
                           THEN top.all_constraints
                           ELSE top.top_level_callee_constraints
  /\ UNCHANGED << inputVars, sccVars, topoVars, schedVars, cursorVars,
                  runVars >>
  /\ UNCHANGED << wrapped_SCC, roots >>

(***************************************************************************)
(* Lines 93-97: one iteration of the loop over top._dag.all_constraints,   *)
(* a set, so in any order.                                                 *)
(***************************************************************************)
AddEdge(Gr, u, v) == [ Gr EXCEPT ![u] = Append(@, v) ]

AddConstraint ==
  /\ pc = "constraints"
  /\ \E c \in todo :
       LET u == c[1]
           v == c[2]
       IN  /\ IF u \in V /\ v \in V
              THEN /\ E' = E \cup { <<u, v>> }
                   /\ G' = AddEdge(G, u, v)
                   /\ G_T' = AddEdge(G_T, v, u)
              ELSE UNCHANGED << E, G, G_T >>
           /\ IF todo = {c}
              THEN /\ pc' = IF top.top_level_callee_constraints # {}
                            THEN "callee_constraints" ELSE "dfs"
                   /\ todo' = top.top_level_callee_constraints
              ELSE /\ pc' = pc
                   /\ todo' = todo \ {c}
  /\ UNCHANGED << inputVars, V, method_callee_mapping, method_guard_mapping,
                  guard_method_mapping, sccVars, topoVars, schedVars,
                  cursorVars, runVars >>
  /\ UNCHANGED << wrapped_SCC, roots >>

(***************************************************************************)
(* Lines 106-121: one iteration of the loop over                           *)
(* top._dag.top_level_callee_constraints.                                  *)
(***************************************************************************)
\* lines 108-116: the endpoints after the method -> callee port lookup and
\* the redirection of the right endpoint to the ready guard
SubstituteLeft(mcm, xx) == IF xx \in DOMAIN mcm THEN mcm[xx] ELSE xx

\* mutant of SubstituteRight: lines 115-116 are missing, the right endpoint
\* stays the method port
SubstituteRight_no_redirect(mcm, mgm, yy) ==
  IF yy \in DOMAIN mcm THEN mcm[yy] ELSE yy

SubstituteRight(mcm, mgm, yy) ==
  LET y1 == IF yy \in DOMAIN mcm THEN mcm[yy] ELSE yy
  IN  IF y1 \in DOMAIN mgm THEN mgm[y1] ELSE y1

AddCalleeConstraint ==
  /\ pc = "callee_constraints"
  /\ \E c \in todo :
       LET xx == SubstituteLeft(method_callee_mapping, c[1])
           yy == SubstituteRight(method_callee_mapping,
                                 method_guard_mapping, c[2])
       IN  /\ IF xx \in V /\ yy \in V
              THEN /\ E' = E \cup { <<xx, yy>> }
                   /\ G' = AddEdge(G, xx, yy)
                   /\ G_T' = AddEdge(G_T, yy, xx)
              ELSE UNCHANGED << E, G, G_T >>
           /\ todo' = todo \ {c}
           /\ pc' = IF todo = {c} THEN "dfs" ELSE pc
  /\ UNCHANGED << inputVars, V, method_callee_mapping, method_guard_mapping,
                  guard_method_mapping, sccVars, topoVars, schedVars,
                  cursorVars, runVars >>
  /\ UNCHANGED << wrapped_SCC, roots >>

(***************************************************************************)
(* Lines 133-152: first pass of Kosaraju's algorithm, a post-order DFS on  *)
(* G with an explicit stack of (vertex, second_visit) pairs.               *)
(***************************************************************************)
\* the while loop of lines 141-150
RECURSIVE DFSLoop(_, _, _, _)
DFSLoop(Gr, stack, vis, po) ==
  IF stack = <<>> THEN [ visited |-> vis, PO |-> po ]
  ELSE LET frame == stack[Len(stack)]
           rest  == SubSeq(stack, 1, Len(stack) - 1)
           u     == frame[1]
       IN  IF frame[2] THEN DFSLoop(Gr, rest, vis, Append(po, u))
           ELSE IF u \notin vis
           THEN DFSLoop(Gr,
                        rest \o << <<u, TRUE>> >>
                             \o [ i \in 1..Len(Gr[u]) |->
                                    << Reverse(Gr[u])[i], FALSE >> ],
                        vis \cup {u}, po)
           ELSE DFSLoop(Gr, rest, vis, po)

\* One iteration of the for loop of line 139 that finds u unvisited; an
\* iteration with u visited leaves PO and visited as they are.  vertices is
\* the dict's key list after random.shuffle, so the next unvisited vertex
\* can be any of them.
DFSVisit ==
  /\ pc = "dfs"
  /\ \E u \in V \ visited :
       LET res == DFSLoop(G, << <<u, FALSE>> >>, visited, PO)
       IN  /\ PO' = res.PO
           /\ visited' = res.visited
           /\ pc' = IF res.visited = V THEN "bfs" ELSE pc
  /\ UNCHANGED << inputVars, graphVars, SCCs, v_SCC, topoVars, schedVars,
                  cursorVars, runVars >>
  /\ UNCHANGED << wrapped_SCC, roots >>

(***************************************************************************)
(* Lines 152-174: second pass, a BFS on G_T in reverse post-order.         *)
(* SCCs is a Python list: a function on 0 .. len(SCCs)-1.                  *)
(***************************************************************************)
\* mutant of GatherEdges: line 172 is missing, so a vertex gathered into an
\* SCC is not marked visited
RECURSIVE GatherEdges_unmarked(_, _, _, _)
GatherEdges_unmarked(preds, Qq, vis, scc) ==
  IF preds = <<>> THEN [ Q |-> Qq, visited |-> vis, scc |-> scc ]
  ELSE LET v == Head(preds)
       IN  IF v \notin vis
           THEN GatherEdges_unmarked(Tail(preds), Append(Qq, v), vis,
                                     scc \cup {v})
           ELSE GatherEdges_unmarked(Tail(preds), Qq, vis, scc)

\* lines 170-174: the for loop over G_T[u]
RECURSIVE GatherEdges(_, _, _, _)
GatherEdges(preds, Qq, vis, scc) ==
  IF preds = <<>> THEN [ Q |-> Qq, visited |-> vis, scc |-> scc ]
  ELSE LET v == Head(preds)
       IN  IF v \notin vis
           THEN GatherEdges(Tail(preds), Append(Qq, v), vis \cup {v},
                            scc \cup {v})
           ELSE GatherEdges(Tail(preds), Qq, vis, scc)

\* lines 167-174: the while loop over the deque Q; id is len(SCCs) - 1
RECURSIVE GatherSCC(_, _, _, _, _, _)
GatherSCC(GT, Qq, vis, scc, vscc, id) ==
  IF Qq = <<>> THEN [ visited |-> vis, scc |-> scc, v_SCC |-> vscc ]
  ELSE LET u == Head(Qq)
           r == GatherEdges(GT[u], Tail(Qq), vis, scc)
           vscc1 == [ x \in DOMAIN vscc \cup {u} |->
                        IF x = u THEN id ELSE vscc[x] ]
       IN  GatherSCC(GT, r.Q, r.visited, r.scc, vscc1, id)

\* lines 160-174: the for loop over RPO; sccs is the list SCCs (1-based here)
RECURSIVE SCCLoop(_, _, _, _, _)
SCCLoop(GT, rpo, vis, sccs, vscc) ==
  IF rpo = <<>> THEN [ SCCs |-> sccs, v_SCC |-> vscc ]
  ELSE LET u == Head(rpo)
       IN  IF u \notin vis
           THEN LET r == GatherSCC(GT, <<u>>, vis \cup {u}, {u}, vscc,
                                   Len(sccs))
                IN  SCCLoop(GT, Tail(rpo), r.visited, Append(sccs, r.scc),
                            r.v_SCC)
           ELSE SCCLoop(GT, Tail(rpo), vis, sccs, vscc)

\* a 1-based sequence as a Python list indexed from 0
ZeroBased(s) == [ i \in 0..(Len(s) - 1) |-> s[i + 1] ]

\* len() of a 0-based list
Len0(f) == Cardinality(DOMAIN f)

KosarajuBFS ==
  /\ pc = "bfs"
  /\ LET res == SCCLoop(G_T, Reverse(PO), {}, <<>>, EmptyDict)
     IN  /\ SCCs' = ZeroBased(res.SCCs)
         /\ v_SCC' = res.v_SCC
  /\ pc' = "condense"
  /\ UNCHANGED << inputVars, graphVars, PO, visited, topoVars, schedVars,
                  cursorVars, runVars >>
  /\ UNCHANGED << wrapped_SCC, roots >>

(***************************************************************************)
(* Lines 176-196: the graph of SCCs, its in-degrees and the first frontier *)
(***************************************************************************)
\* mutant of CondensedGraph: scc_u and scc_v swapped, so every SCC edge
\* is entered backwards
CondensedGraph_swapped(Ed, vscc, n) ==
  [ i \in 0..(n - 1) |->
      { vscc[e[1]] : e \in { d \in Ed : vscc[d[2]] = i /\ vscc[d[1]] # i } } ]

\* lines 181-185: G_new[i] is a set, so InD counts each SCC edge once
CondensedGraph(Ed, vscc, n) ==
  [ i \in 0..(n - 1) |->
      { vscc[e[2]] : e \in { d \in Ed : vscc[d[1]] = i /\ vscc[d[2]] # i } } ]

InDegrees(Gn) ==
  [ i \in DOMAIN Gn |-> Cardinality({ j \in DOMAIN Gn : i \in Gn[j] }) ]

\* the elements of a set of SCC ids in ascending order: range() at line
\* 192, and the iteration order of a CPython set of small integers
RECURSIVE Ascending(_)
Ascending(S) ==
  IF S = {} THEN <<>>
  ELSE LET lo == CHOOSE x \in S : \A y \in S : x <= y
       IN  <<lo>> \o Ascending(S \ {lo})

\* scc_pred's None
None == -1

\* line 219
ScheduleAssertOk(sched, sccs) == Len(sched) = Len0(sccs)

Condense ==
  /\ pc = "condense"
  /\ LET Gn == CondensedGraph(E, v_SCC, Len0(SCCs))
         ind == InDegrees(Gn)
         Q0 == Ascending({ i \in DOMAIN ind : ind[i] = 0 })
     IN  /\ G_new' = Gn
         /\ InD' = ind
         /\ Q' = Q0
         /\ scc_pred' = [ x \in Range(Q0) |-> None ]
         /\ scc_schedule' = <<>>
         /\ pc' = IF Q0 # <<>> THEN "topo"
                  ELSE IF ScheduleAssertOk(<<>>, SCCs) THEN "emit"
                  ELSE "AssertionError"
  /\ UNCHANGED << inputVars, graphVars, sccVars, schedVars, cursorVars,
                  runVars >>
  /\ UNCHANGED << wrapped_SCC, roots >>

(***************************************************************************)
(* Lines 197-219: one iteration of the topological sort's while loop.      *)
(***************************************************************************)
\* `m in method_guard_mapping` at line 205: m is an element of Q, an SCC
\* id (an int); the keys of both dicts are CalleePort objects, and an int
\* equals no CalleePort
SccIdInPortDict(m, d) == \E k \in DOMAIN d : FALSE

\* line 205
Preferred(m, mgm, gmm) ==
  ~ SccIdInPortDict(m, mgm) \/ ~ SccIdInPortDict(m, gmm)

\* lines 203-208: the index (1-based) of the element the scan pops
PopIndex(Qq, mgm, gmm) ==
  CHOOSE i \in 1..Len(Qq) :
    /\ Preferred(Qq[i], mgm, gmm)
    /\ \A j \in 1..(i - 1) : ~ Preferred(Qq[j], mgm, gmm)

RemoveAt(s, i) == SubSeq(s, 1, i - 1) \o SubSeq(s, i + 1, Len(s))

\* mutant of Drain: scc_pred[v] is set by the first pop that lowers InD[v]
\* and kept afterwards
RECURSIVE Drain_first_recorded(_, _, _, _, _)
Drain_first_recorded(succs, u, ind, Qq, pred) ==
  IF succs = <<>> THEN [ InD |-> ind, Q |-> Qq, scc_pred |-> pred ]
  ELSE LET v == Head(succs)
           ind1 == [ ind EXCEPT ![v] = @ - 1 ]
           pred1 == IF v \in DOMAIN pred THEN pred
                    ELSE [ x \in DOMAIN pred \cup {v} |->
                             IF x = v THEN u ELSE pred[x] ]
       IN  Drain_first_recorded(Tail(succs), u, ind1,
                                IF ind1[v] = 0 THEN Append(Qq, v) ELSE Qq,
                                pred1)

\* lines 213-217: the for loop over G_new[u]
RECURSIVE Drain(_, _, _, _, _)
Drain(succs, u, ind, Qq, pred) ==
  IF succs = <<>> THEN [ InD |-> ind, Q |-> Qq, scc_pred |-> pred ]
  ELSE LET v == Head(succs)
           ind1 == [ ind EXCEPT ![v] = @ - 1 ]
       IN  IF ind1[v] = 0
           THEN Drain(Tail(succs), u, ind1, Append(Qq, v),
                      [ x \in DOMAIN pred \cup {v} |->
                          IF x = v THEN u ELSE pred[x] ])
           ELSE Drain(Tail(succs), u, ind1, Qq, pred)

\* one pass of the while body; every element of Q is Preferred, so the scan
\* of lines 203-208 always finds one and `found` is True
KahnStep(Qq, ind, pred, sched, Gn, mgm, gmm) ==
  LET i == PopIndex(Qq, mgm, gmm)
      u == Qq[i]
      r == Drain(Ascending(Gn[u]), u, ind, RemoveAt(Qq, i), pred)
  IN  [ InD |-> r.InD, Q |-> r.Q, scc_pred |-> r.scc_pred,
        scc_schedule |-> Append(sched, u) ]

KahnPop ==
  /\ pc = "topo"
  /\ LET r == KahnStep(Q, InD, scc_pred, scc_schedule, G_new,
                       method_guard_mapping, guard_method_mapping)
     IN  /\ InD' = r.InD
         /\ Q' = r.Q
         /\ scc_pred' = r.scc_pred
         /\ scc_schedule' = r.scc_schedule
         /\ pc' = IF r.Q # <<>> THEN pc
                  ELSE IF ScheduleAssertOk(r.scc_schedule, SCCs) THEN "emit"
                  ELSE "AssertionError"
  /\ UNCHANGED << inputVars, graphVars, sccVars, G_new, schedVars,
                  cursorVars, runVars >>
  /\ UNCHANGED << wrapped_SCC, roots >>

(***************************************************************************)
(* Lines 229-338: one iteration of the loop over scc_schedule, which       *)
(* appends the SCC's only vertex or its super-block to update_schedule.    *)
(* An element of a schedule is a record: f the function or port, id the    *)
(* number of a super-block (0 otherwise), blks the intra-SCC order the     *)
(* super-block runs (empty otherwise).                                     *)
(***************************************************************************)
Elem(f) == [ f |-> f, id |-> 0, blks |-> <<>> ]

SuperBlock(id, tmp_schedule) ==
  [ f |-> "wrapped_SCC", id |-> id, blks |-> tmp_schedule ]

\* sorted( scc, key = lambda x: x.__name__ )
RECURSIVE SortedByName(_)
SortedByName(S) ==
  IF S = {} THEN <<>>
  ELSE LET lo == CHOOSE x \in S : \A y \in S : NameRank[x] <= NameRank[y]
       IN  <<lo>> \o SortedByName(S \ {lo})

\* lines 252-255
InternalInDegree(Ed, scc) ==
  [ v \in scc |-> Cardinality({ e \in Ed : e[1] \in scc /\ e[2] = v }) ]

\* line 256: max( InD, key = InD.get ) returns the first key of maximal
\* value in the dict's order, which is the iteration order of the set scc:
\* any key of maximal value
MaxKeys(ind) == { v \in DOMAIN ind : \A w \in DOMAIN ind : ind[w] <= ind[v] }

\* lines 264-266 for one x: x once for every entry of G_T[x] in pred
RECURSIVE EntriesFromPred(_, _, _)
EntriesFromPred(x, preds, pred) ==
  IF preds = <<>> THEN <<>>
  ELSE (IF Head(preds) \in pred THEN <<x>> ELSE <<>>)
         \o EntriesFromPred(x, Tail(preds), pred)

\* lines 263-266
RECURSIVE SeedFromPred(_, _, _)
SeedFromPred(xs, GT, pred) ==
  IF xs = <<>> THEN <<>>
  ELSE EntriesFromPred(Head(xs), GT[Head(xs)], pred)
         \o SeedFromPred(Tail(xs), GT, pred)

\* lines 273-276: the for loop over G[u]
RECURSIVE ExpandEdges(_, _, _, _)
ExpandEdges(succs, scc, Qq, vis) ==
  IF succs = <<>> THEN [ Q |-> Qq, visited |-> vis ]
  ELSE LET v == Head(succs)
       IN  IF v \in scc /\ v \notin vis
           THEN ExpandEdges(Tail(succs), scc, Append(Qq, v), vis \cup {v})
           ELSE ExpandEdges(Tail(succs), scc, Qq, vis)

\* lines 269-276
RECURSIVE IntraBFS(_, _, _, _, _)
IntraBFS(Gr, scc, Qq, vis, tmp) ==
  IF Qq = <<>> THEN tmp
  ELSE LET u == Head(Qq)
           r == ExpandEdges(Gr[u], scc, Tail(Qq), vis)
       IN  IntraBFS(Gr, scc, r.Q, r.visited, Append(tmp, u))

\* lines 246-276: tmp_schedule from the seed deque
IntraSchedule(Gr, scc, seed) == IntraBFS(Gr, scc, seed, Range(seed), <<>>)

\* scc_id at line 278: the super-blocks made so far, plus one
NextSccId(upd) == Cardinality({ j \in 1..Len(upd) : upd[j].id # 0 }) + 1

EmitSCC ==
  /\ pc = "emit"
  /\ LET i   == scc_schedule[Len(update_schedule) + 1]
         scc == SCCs[i]
     IN  IF Cardinality(scc) = 1
         THEN /\ update_schedule' =
                   Append(update_schedule, Elem(CHOOSE u \in scc : TRUE))
              /\ UNCHANGED InD
         ELSE IF scc_pred[i] = None
         THEN /\ InD' = InternalInDegree(E, scc)
              /\ \E first \in MaxKeys(InternalInDegree(E, scc)) :
                   update_schedule' =
                     Append(update_schedule,
                            SuperBlock(NextSccId(update_schedule),
                                       IntraSchedule(G, scc, <<first>>)))
         ELSE /\ update_schedule' =
                   Append(update_schedule,
                          SuperBlock(NextSccId(update_schedule),
                                     IntraSchedule(G, scc,
                                       SeedFromPred(SortedByName(scc), G_T,
                                                    SCCs[scc_pred[i]]))))
              /\ UNCHANGED InD
  /\ pc' = IF Len(update_schedule) + 1 = Len(scc_schedule)
           THEN "assemble" ELSE pc
  /\ UNCHANGED << inputVars, graphVars, sccVars, G_new, Q, scc_pred,
                  scc_schedule, schedule, schedule_no_method, mapping,
                  wrappers, tick, cursorVars, runVars >>
  /\ UNCHANGED << wrapped_SCC, roots >>

(***************************************************************************)
(* Lines 340-394: the per-cycle schedule and its projection without        *)
(* callee ports.  schedule and schedule_no_method are Python lists:        *)
(* functions on 0 .. len-1.                                                *)
(***************************************************************************)
\* what the collaborating passes leave on top: self.line_trace_on,
\* top._sched.schedule_ff, the tracing hooks of top._tracing that exist,
\* top._sched.schedule_posedge_flip
TailConfigs ==
  { [ line_trace_on |-> lt, schedule_ff |-> ff, hooks |-> hk,
      schedule_posedge_flip |-> IF ff = <<>> THEN <<>> ELSE << "flip" >> ] :
      lt \in BOOLEAN, ff \in { <<>>, << "F" >> },
      hk \in { <<>>, << "vcd_func", "collect_text_sigs" >> } }

Elems(fs) == [ j \in 1..Len(fs) |-> Elem(fs[j]) ]

\* mutant of AssembleSchedule: the flip-flop blocks are put ahead of the
\* update sweep
AssembleSchedule_ff_first(upd, cfg) ==
  << Elem("clear_cl_trace") >>
    \o Elems(cfg.schedule_ff)
    \o upd
    \o (IF cfg.line_trace_on THEN << Elem("print_line_trace") >> ELSE <<>>)
    \o Elems(cfg.hooks)
    \o Elems(cfg.schedule_posedge_flip)

\* lines 355-382
AssembleSchedule(upd, cfg) ==
  << Elem("clear_cl_trace") >>
    \o upd
    \o (IF cfg.line_trace_on THEN << Elem("print_line_trace") >> ELSE <<>>)
    \o Elems(cfg.schedule_ff)
    \o Elems(cfg.hooks)
    \o Elems(cfg.schedule_posedge_flip)

\* isinstance( x, CalleePort ) for a schedule element
IsCalleeElem(x) == x.id = 0 /\ IsCalleePort(x.f)

\* mutant of FilterNoMethod: only the ports of non-blocking interfaces are
\* left out, a normal callee port stays in the projection
RECURSIVE FilterNoMethod_keeps_normal_ports(_)
FilterNoMethod_keeps_normal_ports(sched) ==
  IF sched = <<>> THEN <<>>
  ELSE (IF IsCalleeElem(Head(sched)) /\ Head(sched).f # "P" THEN <<>>
        ELSE << Head(sched) >>)
         \o FilterNoMethod_keeps_normal_ports(Tail(sched))

\* line 393
RECURSIVE FilterNoMethod(_)
FilterNoMethod(sched) ==
  IF sched = <<>> THEN <<>>
  ELSE (IF IsCalleeElem(Head(sched)) THEN <<>> ELSE << Head(sched) >>)
         \o FilterNoMethod(Tail(sched))

\* mutant of IndexMapping: the indices are counted from one
IndexMapping_one_based(proj) ==
  [ x \in { proj[i] : i \in DOMAIN proj } |->
      (CHOOSE i \in DOMAIN proj :
         proj[i] = x /\ \A j \in DOMAIN proj : proj[j] = x => j <= i) + 1 ]

\* line 394: a dict comprehension, so the last index of an element wins
IndexMapping(proj) ==
  [ x \in { proj[i] : i \in DOMAIN proj } |->
      CHOOSE i \in DOMAIN proj :
        proj[i] = x /\ \A j \in DOMAIN proj : proj[j] = x => j <= i ]

Assemble ==
  /\ pc = "assemble"
  /\ \E cfg \in TailConfigs :
       LET sched == AssembleSchedule(update_schedule, cfg)
           proj  == ZeroBased(FilterNoMethod(sched))
       IN  /\ schedule' = ZeroBased(sched)
           /\ schedule_no_method' = proj
           /\ mapping' = IndexMapping(proj)
  /\ new_schedule_index' = 0
  /\ orig_schedule_index' = 0
  /\ pc' = "wrap"
  /\ UNCHANGED << inputVars, graphVars, sccVars, topoVars, update_schedule,
                  wrappers, tick, num_cycles_executed, runVars >>
  /\ UNCHANGED << wrapped_SCC, roots >>

(***************************************************************************)
(* Lines 431-454: a cursor wrapper on every callee port of the schedule,   *)
(* then num_cycles_executed and tick.                                      *)
(***************************************************************************)
\* lines 437-441: the first non-callee index after i, or len(schedule)
NextFunc(sched, i) ==
  LET later == { k \in DOMAIN sched : k > i /\ ~ IsCalleeElem(sched[k]) }
  IN  IF later = {} THEN Len0(sched)
      ELSE CHOOSE k \in later : \A l \in later : k <= l

CalleeIndices(sched) == { i \in DOMAIN sched : IsCalleeElem(sched[i]) }

\* line 445 raises IndexError when no function follows the port
WrapOk(sched) == \A i \in CalleeIndices(sched) : NextFunc(sched, i) < Len0(sched)

\* mutant of Wrapper: the target is one past the next function
Wrapper_target_off_by_one(sched, map, i) ==
  [ my_idx_new |-> map[sched[NextFunc(sched, i)]] + 1, my_idx_orig |-> i ]

\* lines 445-450: the two indices wrap_method closes over
Wrapper(sched, map, i) ==
  [ my_idx_new |-> map[sched[NextFunc(sched, i)]], my_idx_orig |-> i ]

InstallWrappers ==
  /\ pc = "wrap"
  /\ IF WrapOk(schedule)
     THEN /\ wrappers' =
               [ x \in { schedule[i].f : i \in CalleeIndices(schedule) } |->
                   Wrapper(schedule, mapping,
                           CHOOSE i \in CalleeIndices(schedule) :
                             schedule[i].f = x) ]
          /\ num_cycles_executed' = 0
          /\ tick' = [ installed |-> TRUE, schedule |-> schedule_no_method ]
          /\ pc' = "done"
     ELSE /\ pc' = "IndexError"
          /\ UNCHANGED << wrappers, num_cycles_executed, tick >>
  /\ UNCHANGED << inputVars, graphVars, sccVars, topoVars, update_schedule,
                  schedule, schedule_no_method, mapping,
                  new_schedule_index, orig_schedule_index, runVars >>
  /\ UNCHANGED << wrapped_SCC, roots >>

(***************************************************************************)
(* The pass returns: its locals are gone; what stays is what the closures  *)
(* hold (schedule_no_method, the wrappers' indices), top._sched's cursor   *)
(* and top.num_cycles_executed.  schedule is kept to state properties.     *)
(***************************************************************************)
NoTop == [ final_upblks |-> {}, update_ff |-> {}, callee_ports |-> {},
           nb_ifcs |-> {}, method |-> EmptyDict,
           has_all_constraints |-> TRUE, all_constraints |-> {},
           top_level_callee_constraints |-> {} ]

NoTick == [ installed |-> FALSE, schedule |-> EmptyDict ]

LocalsInit ==
  /\ todo = {}
  /\ V = {}
  /\ E = {}
  /\ G = EmptyDict
  /\ G_T = EmptyDict
  /\ method_callee_mapping = EmptyDict
  /\ method_guard_mapping = EmptyDict
  /\ guard_method_mapping = EmptyDict
  /\ PO = <<>>
  /\ visited = {}
  /\ SCCs = EmptyDict
  /\ v_SCC = EmptyDict
  /\ G_new = EmptyDict
  /\ InD = EmptyDict
  /\ Q = <<>>
  /\ scc_pred = EmptyDict
  /\ scc_schedule = <<>>
  /\ update_schedule = <<>>

LocalsReset ==
  /\ todo' = {}
  /\ V' = {}
  /\ E' = {}
  /\ G' = EmptyDict
  /\ G_T' = EmptyDict
  /\ method_callee_mapping' = EmptyDict
  /\ method_guard_mapping' = EmptyDict
  /\ guard_method_mapping' = EmptyDict
  /\ PO' = <<>>
  /\ visited' = {}
  /\ SCCs' = EmptyDict
  /\ v_SCC' = EmptyDict
  /\ G_new' = EmptyDict
  /\ InD' = EmptyDict
  /\ Q' = <<>>
  /\ scc_pred' = EmptyDict
  /\ scc_schedule' = <<>>
  /\ update_schedule' = <<>>

Return ==
  /\ pc = "done"
  /\ pc' = "sim"
  /\ top' = NoTop
  /\ LocalsReset
  /\ mapping' = EmptyDict
  /\ UNCHANGED << schedule, schedule_no_method, wrappers, tick, cursorVars,
                  runVars >>
  /\ UNCHANGED << wrapped_SCC, roots >>

(***************************************************************************)
(* The simulation: top.tick() and calls of the wrapped callee ports.       *)
(* An operation's log lists what it ran, in order:                         *)
(*   [e |-> "blk", i |-> k]     schedule_no_method[k]()                    *)
(*   [e |-> "cycle", i |-> 0]   top.num_cycles_executed += 1               *)
(*   [e |-> "method", i |-> o]  the method of the port at schedule         *)
(*                              index o                                    *)
(***************************************************************************)
BlkEvent(k) == [ e |-> "blk", i |-> k ]
CycleEvent == [ e |-> "cycle", i |-> 0 ]
MethodEvent(o) == [ e |-> "method", i |-> o ]

\* while i < to: schedule_no_method[i](); i += 1
RunBlocks(from, to) ==
  IF from < to THEN [ k \in 1..(to - from) |-> BlkEvent(from + k - 1) ]
  ELSE <<>>

AfterRun(from, to) == IF from < to THEN to ELSE from

\* mutant of normal_tick: the loop starts at the second block
normal_tick_skip_first(proj) == RunBlocks(1, Len0(proj))

\* src/pymtl3/passes/OpenLoopCLPass.py lines 467-470 (and what line 454 of
\* the autotick pass installs): every block of the projection, in order
normal_tick(proj) == RunBlocks(0, Len0(proj))

\* mutant of actual_method: line 420 is j = my_idx_orig + 2
actual_method_orig_past_next(w, proj, i0, j0, n0) ==
  LET wrap == j0 > w.my_idx_orig
      log1 == IF wrap THEN RunBlocks(i0, Len0(proj)) \o << CycleEvent >>
              ELSE <<>>
      i1   == IF wrap THEN 0 ELSE i0
      n1   == IF wrap THEN n0 + 1 ELSE n0
      log2 == RunBlocks(i1, w.my_idx_new)
      i2   == AfterRun(i1, w.my_idx_new)
  IN  [ new_schedule_index  |-> i2,
        orig_schedule_index |-> w.my_idx_orig + 2,
        num_cycles_executed |-> n1,
        log |-> log1 \o log2 \o << MethodEvent(w.my_idx_orig) >> ]

\* mutant of actual_method: the wrap-around branch does not run the rest
\* of the old cycle (lines 409-411 are missing)
actual_method_drop_rest(w, proj, i0, j0, n0) ==
  LET wrap == j0 > w.my_idx_orig
      log1 == IF wrap THEN << CycleEvent >> ELSE <<>>
      i1   == IF wrap THEN 0 ELSE i0
      n1   == IF wrap THEN n0 + 1 ELSE n0
      log2 == RunBlocks(i1, w.my_idx_new)
      i2   == AfterRun(i1, w.my_idx_new)
  IN  [ new_schedule_index  |-> i2,
        orig_schedule_index |-> w.my_idx_orig + 1,
        num_cycles_executed |-> n1,
        log |-> log1 \o log2 \o << MethodEvent(w.my_idx_orig) >> ]

\* mutant of actual_method: line 404 tests j > my_idx_orig + 1
actual_method_wrap_past_next(w, proj, i0, j0, n0) ==
  LET wrap == j0 > w.my_idx_orig + 1
      log1 == IF wrap THEN RunBlocks(i0, Len0(proj)) \o << CycleEvent >>
              ELSE <<>>
      i1   == IF wrap THEN 0 ELSE i0
      n1   == IF wrap THEN n0 + 1 ELSE n0
      log2 == RunBlocks(i1, w.my_idx_new)
      i2   == AfterRun(i1, w.my_idx_new)
  IN  [ new_schedule_index  |-> i2,
        orig_schedule_index |-> w.my_idx_orig + 1,
        num_cycles_executed |-> n1,
        log |-> log1 \o log2 \o << MethodEvent(w.my_idx_orig) >> ]

\* mutant of actual_method: line 404 tests j >= my_idx_orig
actual_method_wrap_on_equal(w, proj, i0, j0, n0) ==
  LET wrap == j0 >= w.my_idx_orig
      log1 == IF wrap THEN RunBlocks(i0, Len0(proj)) \o << CycleEvent >>
              ELSE <<>>
      i1   == IF wrap THEN 0 ELSE i0
      n1   == IF wrap THEN n0 + 1 ELSE n0
      log2 == RunBlocks(i1, w.my_idx_new)
      i2   == AfterRun(i1, w.my_idx_new)
  IN  [ new_schedule_index  |-> i2,
        orig_schedule_index |-> w.my_idx_orig + 1,
        num_cycles_executed |-> n1,
        log |-> log1 \o log2 \o << MethodEvent(w.my_idx_orig) >> ]

\* mutant of actual_method: line 412 is missing, so i stays at the end of
\* the projection after the wrap
actual_method_no_reset(w, proj, i0, j0, n0) ==
  LET wrap == j0 > w.my_idx_orig
      log1 == IF wrap THEN RunBlocks(i0, Len0(proj)) \o << CycleEvent >>
              ELSE <<>>
      i1   == IF wrap THEN AfterRun(i0, Len0(proj)) ELSE i0
      n1   == IF wrap THEN n0 + 1 ELSE n0
      log2 == RunBlocks(i1, w.my_idx_new)
      i2   == AfterRun(i1, w.my_idx_new)
  IN  [ new_schedule_index  |-> i2,
        orig_schedule_index |-> w.my_idx_orig + 1,
        num_cycles_executed |-> n1,
        log |-> log1 \o log2 \o << MethodEvent(w.my_idx_orig) >> ]

\* mutant of actual_method: after the method body the wrapper runs on to
\* the next block
actual_method_spill(w, proj, i0, j0, n0) ==
  LET wrap == j0 > w.my_idx_orig
      log1 == IF wrap THEN RunBlocks(i0, Len0(proj)) \o << CycleEvent >>
              ELSE <<>>
      i1   == IF wrap THEN 0 ELSE i0
      n1   == IF wrap THEN n0 + 1 ELSE n0
      log2 == RunBlocks(i1, w.my_idx_new)
      i2   == AfterRun(i1, w.my_idx_new)
      i3   == IF i2 < Len0(proj) THEN i2 + 1 ELSE i2
  IN  [ new_schedule_index  |-> i3,
        orig_schedule_index |-> w.my_idx_orig + 1,
        num_cycles_executed |-> n1,
        log |-> log1 \o log2 \o << MethodEvent(w.my_idx_orig) >>
                  \o RunBlocks(i2, i3) ]

\* lines 400-427: actual_method of the wrapper w, entered with the cursor
\* (i0, j0) and top.num_cycles_executed = n0
actual_method(w, proj, i0, j0, n0) ==
  LET wrap == j0 > w.my_idx_orig
      log1 == IF wrap THEN RunBlocks(i0, Len0(proj)) \o << CycleEvent >>
              ELSE <<>>
      i1   == IF wrap THEN 0 ELSE i0
      n1   == IF wrap THEN n0 + 1 ELSE n0
      log2 == RunBlocks(i1, w.my_idx_new)
      i2   == AfterRun(i1, w.my_idx_new)
  IN  [ new_schedule_index  |-> i2,
        orig_schedule_index |-> w.my_idx_orig + 1,
        num_cycles_executed |-> n1,
        log |-> log1 \o log2 \o << MethodEvent(w.my_idx_orig) >> ]

Cursor ==
  [ new |-> new_schedule_index, orig |-> orig_schedule_index,
    cycles |-> num_cycles_executed ]

\* the operation made before the one being recorded: its kind and what it
\* ran ("none" for the first operation on the root)
Before ==
  IF hist = <<>> THEN [ op |-> "none", log |-> <<>> ]
  ELSE [ op |-> hist[1].op, log |-> hist[1].log ]

\* the number of schedule_no_method[i]() calls in a log
BlocksIn(log) == Cardinality({ k \in DOMAIN log : log[k].e = "blk" })

\* the number of schedule_no_method[i]() calls made so far by the wrappers,
\* counted while no tick() was called on the root (-1 from the first tick)
ExecutedByCalls ==
  IF hist = <<>> THEN 0 ELSE hist[1].executed

\* the last two operations, newest first
Remember(rec) == << rec >> \o (IF hist = <<>> THEN <<>> ELSE << hist[1] >>)

Tick ==
  /\ pc = "sim"
  /\ tick.installed
  /\ ticks_only < MaxTicks
  /\ hist' = Remember([ op |-> "tick", port |-> "-", pre |-> Cursor,
                        log |-> normal_tick(tick.schedule),
                        after |-> Before, executed |-> -1 ])
  /\ ticks_only' = IF ticks_only >= 0 THEN ticks_only + 1 ELSE ticks_only
  /\ UNCHANGED << pc, inputVars, graphVars, sccVars, topoVars, schedVars,
                  cursorVars >>
  /\ UNCHANGED << wrapped_SCC, roots >>

CallMethod ==
  /\ pc = "sim"
  /\ num_cycles_executed < MaxCycles
  /\ \E x \in DOMAIN wrappers :
       LET r == actual_method(wrappers[x], schedule_no_method,
                              new_schedule_index, orig_schedule_index,
                              num_cycles_executed)
       IN  /\ new_schedule_index' = r.new_schedule_index
           /\ orig_schedule_index' = r.orig_schedule_index
           /\ num_cycles_executed' = r.num_cycles_executed
           /\ hist' = Remember([ op |-> "call", port |-> x, pre |-> Cursor,
                                 log |-> r.log, after |-> Before,
                                 executed |->
                                   IF ExecutedByCalls < 0 THEN -1
                                   ELSE ExecutedByCalls + BlocksIn(r.log) ])
  /\ ticks_only' = -1
  /\ UNCHANGED << pc, inputVars, graphVars, sccVars, topoVars, schedVars >>
  /\ UNCHANGED << wrapped_SCC, roots >>

\* the positions of a call's log that are calls of Python code which can
\* raise: the blocks and the method body (line 413 is a plain increment)
Callables(log) == { k \in 1..Len(log) : log[k].e # "cycle" }

\* lines 400-427 when the k-th entry of the call's log raises: the
\* exception leaves actual_method at once, lines 425-426 are not reached
\* and top._sched keeps the cursor (i0, j0) it had on entry, i and j being
\* locals; line 413 has added to top.num_cycles_executed itself if the
\* wrap-around branch was done before
actual_method_raises(w, proj, i0, j0, n0, k) ==
  LET full == actual_method(w, proj, i0, j0, n0).log
      ran  == SubSeq(full, 1, k)
  IN  [ new_schedule_index  |-> i0,
        orig_schedule_index |-> j0,
        num_cycles_executed |->
          IF \E l \in 1..k : ran[l].e = "cycle" THEN n0 + 1 ELSE n0,
        log |-> ran ]

\* a call of a wrapped port in which a prefix block or the method raises;
\* the exception goes to the caller, which stops the simulation (pc is
\* "raised" from then on); hist keeps the failed call alone
CallMethodRaises ==
  /\ pc = "sim"
  /\ pc' = "raised"
  /\ num_cycles_executed < MaxCycles
  /\ \E x \in DOMAIN wrappers :
       LET full == actual_method(wrappers[x], schedule_no_method,
                                 new_schedule_index, orig_schedule_index,
                                 num_cycles_executed).log
       IN  \E k \in Callables(full) :
             LET r == actual_method_raises(wrappers[x], schedule_no_method,
                                           new_schedule_index,
                                           orig_schedule_index,
                                           num_cycles_executed, k)
             IN  /\ new_schedule_index' = r.new_schedule_index
                 /\ orig_schedule_index' = r.orig_schedule_index
                 /\ num_cycles_executed' = r.num_cycles_executed
                 /\ hist' = << [ op |-> "raise", port |-> x,
                                  pre |-> Cursor, log |-> r.log,
                                  after |-> Before,
                                  executed |->
                                    IF ExecutedByCalls < 0 THEN -1
                                    ELSE ExecutedByCalls + BlocksIn(r.log)
                                ] >>
  /\ ticks_only' = -1
  /\ UNCHANGED << inputVars, graphVars, sccVars, topoVars, schedVars >>
  /\ UNCHANGED << wrapped_SCC, roots >>

(***************************************************************************)
(* One run of a generated super-block (the template of lines 300-315,      *)
(* filled in at lines 317-335; the same text at lines 319-335 of           *)
(* src/pymtl3/passes/OpenLoopCLPass.py).  wrapped_SCC holds                *)
(*   line       where the run is: "while" (before line 305), "for" (before *)
(*              line 307), "if" (before line 309), "returned",             *)
(*              "UpblkCyclicError", or "none" outside a run                *)
(*   num_iters  the template's counter                                     *)
(*   val        the values of the trigger variables                        *)
(*   t          the copies t0, t1, ... made by copy_srcs                   *)
(*   scc        the list the template iterates over (tmp_schedule)         *)
(*   passes     the passes over scc done so far                            *)
(*   calls      the blocks called in those passes, in order                *)
(*   changing   for every trigger variable, the number of passes (counted  *)
(*              from the first) in which the blocks change it, or Forever  *)
(***************************************************************************)
\* line 311: the limit num_iters is compared with
MaxIters == 100

\* a variable that the blocks change in every pass
Forever == -1

\* the trigger variables of the SCC: the set `variables` of lines 279-283
Variables == { "x", "y" }

\* the blocks change variable v in pass k (k = 1 is the first pass)
Changes(changing, v, k) == changing[v] = Forever \/ k <= changing[v]

\* lines 307-308: one pass over scc; a block that changes a variable
\* leaves in it a value it did not have before
RunPass(val, changing, k) ==
  [ v \in Variables |-> IF Changes(changing, v, k) THEN val[v] + 1 ELSE val[v] ]

\* mutant of copy_srcs: the copies are made in the first iteration only
copy_srcs_first_only(r) ==
  IF r.num_iters = 0 THEN r.val ELSE r.t

\* line 306, {1} of the template: t<j> = <var>.value (or clone, deepcopy) for
\* every trigger variable, at the start of every iteration
copy_srcs(r) == r.val

\* mutant of check_srcs: the comparisons are joined by `or`
check_srcs_any_equal(r) == \E v \in Variables : r.val[v] = r.t[v]

\* mutant of check_srcs: the comparison counts from the second iteration on
check_srcs_after_first(r) ==
  r.num_iters > 1 /\ \A v \in Variables : r.val[v] = r.t[v]

\* line 309, {2} of the template: <var> == t<j> for every trigger variable,
\* joined by `and`
check_srcs(r) == \A v \in Variables : r.val[v] = r.t[v]

NoRun ==
  [ line |-> "none", num_iters |-> 0, val |-> EmptyDict, t |-> EmptyDict,
    scc |-> <<>>, passes |-> 0, calls |-> <<>>, changing |-> EmptyDict ]

\* the behaviours of the blocks of an SCC that the runs are taken over
Behaviours ==
  { [ v \in Variables |-> IF v = "x" THEN nx ELSE ny ] :
      nx \in (0..MaxChanging) \cup { Forever }, ny \in { 0, 2, Forever } }

\* lines 302-303: the super-block is called
SuperBlockRuns ==
  { [ line |-> "while", num_iters |-> 0,
      val |-> [ v \in Variables |-> 0 ], t |-> [ v \in Variables |-> 0 ],
      scc |-> tmp, passes |-> 0, calls |-> <<>>, changing |-> b ] :
      tmp \in { << "A", "B" >>, << "B", "A" >> }, b \in Behaviours }

\* lines 304-306: while True: num_iters += 1; the copies
SccIterate ==
  /\ pc = "block"
  /\ wrapped_SCC.line = "while"
  /\ wrapped_SCC' = [ wrapped_SCC EXCEPT !.num_iters = @ + 1,
                                          !.t = copy_srcs(wrapped_SCC),
                                          !.line = "for" ]
  /\ UNCHANGED << pc, inputVars, graphVars, sccVars, topoVars, schedVars,
                  cursorVars, runVars, roots >>

\* lines 307-308: for blk in scc: blk().  calls keeps the last pass only.
SccPass ==
  /\ pc = "block"
  /\ wrapped_SCC.line = "for"
  /\ wrapped_SCC' =
       [ wrapped_SCC EXCEPT
           !.val = RunPass(@, wrapped_SCC.changing, wrapped_SCC.passes + 1),
           !.passes = @ + 1,
           !.calls = wrapped_SCC.scc,
           !.line = "if" ]
  /\ UNCHANGED << pc, inputVars, graphVars, sccVars, topoVars, schedVars,
                  cursorVars, runVars, roots >>

\* lines 309-312: break when every variable equals its copy, else raise
\* when num_iters is above the limit, else go round again
SccCheck ==
  /\ pc = "block"
  /\ wrapped_SCC.line = "if"
  /\ wrapped_SCC' =
       [ wrapped_SCC EXCEPT
           !.line = IF check_srcs(wrapped_SCC) THEN "returned"
                    ELSE IF wrapped_SCC.num_iters > MaxIters
                         THEN "UpblkCyclicError"
                    ELSE "while" ]
  /\ UNCHANGED << pc, inputVars, graphVars, sccVars, topoVars, schedVars,
                  cursorVars, runVars, roots >>

(***************************************************************************)
(* Two roots in one process: src/pymtl3/stdlib/test/stateful/              *)
(* test_stateful.py lines 120-131 elaborate s.dut and s.ref and apply the  *)
(* pass to each.  roots[r] is what an application left on root r:          *)
(*   scc_order, update_schedule   the order the application computed       *)
(*   proj                         its schedule_no_method                   *)
(*   wrappers                     x.method of the root's callee ports      *)
(*   new, orig, cycles            r._sched.new_schedule_index,             *)
(*                                r._sched.orig_schedule_index,            *)
(*                                r.num_cycles_executed                    *)
(***************************************************************************)
Roots == { "dut", "ref" }

NoRoot ==
  [ applied |-> FALSE, scc_order |-> <<>>, update_schedule |-> <<>>,
    proj |-> EmptyDict, wrappers |-> EmptyDict,
    new |-> NoSched, orig |-> NoSched, cycles |-> NoAttr ]

\* mutant of Closure: the cursor the wrapper works on is one object shared
\* by the roots of the process
Closure_shared_cursor(r, w) == [ top |-> "ref", sched_of |-> r, w |-> w ]

\* lines 396-429: the closure wrap_method returns holds the top and the
\* schedule_no_method of the application that made it
Closure(r, w) == [ top |-> r, sched_of |-> r, w |-> w ]

\* what the application that has just finished leaves on root r
Installed(r) ==
  [ applied |-> TRUE,
    scc_order |-> [ i \in DOMAIN scc_schedule |-> SCCs[scc_schedule[i]] ],
    update_schedule |-> update_schedule,
    proj |-> schedule_no_method,
    wrappers |-> [ x \in DOMAIN wrappers |-> Closure(r, wrappers[x]) ],
    new |-> new_schedule_index, orig |-> orig_schedule_index,
    cycles |-> num_cycles_executed ]

\* test_stateful.py lines 121-128: the pass has returned from s.dut and is
\* applied to s.ref, a root with the same blocks, ports and constraints.
\* The module was imported once, so random.seed (line 30) is not run
\* again, and the sets of the second root hold other objects.
ApplyToRef ==
  /\ pc = "done"
  /\ ~ roots["dut"].applied
  /\ roots' = [ roots EXCEPT !["dut"] = Installed("dut") ]
  /\ pc' = "start"
  /\ LocalsReset
  /\ schedule' = EmptyDict
  /\ schedule_no_method' = EmptyDict
  /\ mapping' = EmptyDict
  /\ wrappers' = EmptyDict
  /\ tick' = NoTick
  /\ new_schedule_index' = NoSched
  /\ orig_schedule_index' = NoSched
  /\ num_cycles_executed' = NoAttr
  /\ UNCHANGED << inputVars, runVars, wrapped_SCC >>

\* update schedules the pass computes for the design without constraints
\* (they differ in the order of the independent vertices) and the tails of
\* a root with line tracing on
RootSchedules ==
  { << Elem("R"), Elem("P"), Elem("A"), Elem("B"), Elem("M") >>,
    << Elem("P"), Elem("R"), Elem("B"), Elem("A"), Elem("M") >> }

RootConfigs == { cfg \in TailConfigs : cfg.line_trace_on /\ cfg.hooks = <<>> }

\* lines 355-454 on root r, for the update schedule upd and the tail cfg
InstalledOn(r, upd, cfg) ==
  LET sched == ZeroBased(AssembleSchedule(upd, cfg))
      proj  == ZeroBased(FilterNoMethod(AssembleSchedule(upd, cfg)))
      map   == IndexMapping(proj)
  IN  [ applied |-> TRUE,
        scc_order |-> [ i \in DOMAIN upd |-> { upd[i].f } ],
        update_schedule |-> upd,
        proj |-> proj,
        wrappers |->
          [ x \in { sched[i].f : i \in CalleeIndices(sched) } |->
              Closure(r, Wrapper(sched, map,
                                 CHOOSE i \in CalleeIndices(sched) :
                                   sched[i].f = x)) ],
        new |-> 0, orig |-> 0, cycles |-> 0 ]

\* what an operation ran, each entry with the root it belongs to: the
\* blocks and the method of the root whose schedule the closure holds, the
\* counter of the closure's top
Tagged(clo, log) ==
  [ k \in DOMAIN log |->
      [ root |-> IF log[k].e = "cycle" THEN clo.top ELSE clo.sched_of,
        e |-> log[k].e, i |-> log[k].i ] ]

\* r.tick(): the function line 454 made from r's schedule_no_method
TickRoot ==
  /\ pc = "roots"
  /\ \E r \in Roots :
       hist' = << [ op |-> "tick", on |-> r, port |-> "-",
                    log |-> Tagged([ top |-> r, sched_of |-> r ],
                                   normal_tick(roots[r].proj)) ] >>
  /\ UNCHANGED << pc, inputVars, graphVars, sccVars, topoVars, schedVars,
                  cursorVars, ticks_only, wrapped_SCC, roots >>

\* a call of the wrapped port x of root r: actual_method on the cursor of
\* the top the closure holds
CallRoot ==
  /\ pc = "roots"
  /\ \E r \in Roots : \E x \in DOMAIN roots[r].wrappers :
       LET clo == roots[r].wrappers[x]
           t   == clo.top
           res == actual_method(clo.w, roots[clo.sched_of].proj,
                                roots[t].new, roots[t].orig, roots[t].cycles)
       IN  /\ roots[t].cycles < MaxCycles
           /\ roots' = [ roots EXCEPT
                           ![t].new = res.new_schedule_index,
                           ![t].orig = res.orig_schedule_index,
                           ![t].cycles = res.num_cycles_executed ]
           /\ hist' = << [ op |-> "call", on |-> r, port |-> x,
                           log |-> Tagged(clo, res.log) ] >>
  /\ UNCHANGED << pc, inputVars, graphVars, sccVars, topoVars, schedVars,
                  cursorVars, ticks_only, wrapped_SCC >>

(***************************************************************************)
(* The legacy pass, src/pymtl3/passes/OpenLoopCLPass.py: its schedule      *)
(* (lines 240-366), its wrappers (lines 376-465) and its tick.             *)
(***************************************************************************)
\* lines 242-254: the rdy port is not a vertex; it is appended directly
\* ahead of its method port when the method's SCC is emitted
RECURSIVE WithGuards(_)
WithGuards(order) ==
  IF order = <<>> THEN <<>>
  ELSE (IF Head(order) = TheIfc.method
        THEN << Elem(TheIfc.rdy), Elem(Head(order)) >>
        ELSE << Elem(Head(order)) >>) \o WithGuards(Tail(order))

\* the orders the topological sort gives the vertices A, B, P, M of a design
\* without constraints
LegacyUpdateSchedules ==
  { WithGuards(o) : o \in Orders(Blocks \cup { "P", TheIfc.method }) }

\* what the tail of the schedule depends on: top._dsl.all_update_ff, the
\* result of make_double_buffer_func, hasattr( top, "_cl_trace" )
LegacyTails ==
  { [ update_ff |-> ff, double_buffer |-> db, cl_trace |-> cl ] :
      ff \in { <<>>, << "F" >> }, db \in BOOLEAN, cl \in BOOLEAN }

\* lines 352-366
LegacyAssemble(upd, cfg) ==
  upd \o << Elem("print_line_trace") >>
      \o Elems(cfg.update_ff)
      \o (IF cfg.double_buffer THEN << Elem("double_buffer") >> ELSE <<>>)
      \o (IF cfg.cl_trace THEN << Elem("clear_cl_trace") >> ELSE <<>>)

\* lines 441-445: the first callee index after i, or len(schedule)
NextMethod(sched, i) ==
  LET later == { k \in DOMAIN sched : k > i /\ IsCalleeElem(sched[k]) }
  IN  IF later = {} THEN Len0(sched)
      ELSE CHOOSE k \in later : \A l \in later : k <= l

\* lines 428-464: the indices wrap_method closes over for the callee port
\* at index i
LegacyWrapper(sched, proj, map, i) ==
  [ my_idx_new    |-> map[sched[NextFunc(sched, i)]],
    next_idx_new  |->
      IF NextMethod(sched, i) < Len0(sched)
      THEN map[sched[NextFunc(sched, NextMethod(sched, i))]]
      ELSE Len0(proj),
    my_idx_orig   |-> i,
    next_idx_orig |-> NextMethod(sched, i) ]

\* mutant of legacy_actual_method: lines 414-416 are missing, the cursor is
\* stored as it is at the end of the projection
legacy_actual_method_no_end_reset(w, proj, i0, j0, n0) ==
  LET wrap == j0 > w.my_idx_orig
      log1 == IF wrap THEN RunBlocks(i0, Len0(proj)) \o << CycleEvent >>
              ELSE <<>>
      i1   == IF wrap THEN 0 ELSE i0
      n1   == IF wrap THEN n0 + 1 ELSE n0
      log2 == RunBlocks(i1, w.my_idx_new)
      i2   == AfterRun(i1, w.my_idx_new)
      log3 == RunBlocks(i2, w.next_idx_new)
      i3   == AfterRun(i2, w.next_idx_new)
  IN  [ new_schedule_index  |-> i3,
        orig_schedule_index |-> w.next_idx_orig,
        num_cycles_executed |-> n1,
        log |-> log1 \o log2 \o << MethodEvent(w.my_idx_orig) >> \o log3 ]

\* lines 383-420: actual_method of the legacy wrapper w, entered with the
\* cursor (i0, j0) and top.num_cycles_executed = n0
legacy_actual_method(w, proj, i0, j0, n0) ==
  LET wrap == j0 > w.my_idx_orig
      log1 == IF wrap THEN RunBlocks(i0, Len0(proj)) \o << CycleEvent >>
              ELSE <<>>
      i1   == IF wrap THEN 0 ELSE i0
      n1   == IF wrap THEN n0 + 1 ELSE n0
      log2 == RunBlocks(i1, w.my_idx_new)
      i2   == AfterRun(i1, w.my_idx_new)
      log3 == RunBlocks(i2, w.next_idx_new)
      i3   == AfterRun(i2, w.next_idx_new)
      end  == i3 = Len0(proj)
  IN  [ new_schedule_index  |-> IF end THEN 0 ELSE i3,
        orig_schedule_index |-> IF end THEN 0 ELSE w.next_idx_orig,
        num_cycles_executed |-> IF end THEN n1 + 1 ELSE n1,
        log |-> log1 \o log2 \o << MethodEvent(w.my_idx_orig) >> \o log3
                  \o (IF end THEN << CycleEvent >> ELSE <<>>) ]

\* a call of a port the legacy pass wrapped
LegacyCallMethod ==
  /\ pc = "sim"
  /\ num_cycles_executed < MaxCycles
  /\ \E x \in DOMAIN wrappers :
       LET r == legacy_actual_method(wrappers[x], schedule_no_method,
                                     new_schedule_index, orig_schedule_index,
                                     num_cycles_executed)
       IN  /\ new_schedule_index' = r.new_schedule_index
           /\ orig_schedule_index' = r.orig_schedule_index
           /\ num_cycles_executed' = r.num_cycles_executed
           /\ hist' = Remember([ op |-> "call", port |-> x, pre |-> Cursor,
                                 log |-> r.log, after |-> Before,
                                 executed |->
                                   IF ExecutedByCalls < 0 THEN -1
                                   ELSE ExecutedByCalls + BlocksIn(r.log) ])
  /\ ticks_only' = -1
  /\ UNCHANGED << pc, inputVars, graphVars, sccVars, topoVars, schedVars >>
  /\ UNCHANGED << wrapped_SCC, roots >>

(***************************************************************************)
(* Specifications.                                                         *)
(*   SpecPass  the pass alone, over every input of PassInputs              *)
(*   SpecSCC   one run of a generated super-block                          *)
(*   Spec      the pass on the inputs of RunInputs, then the simulation    *)
(***************************************************************************)
InitWith(inputs) ==
  /\ pc = "start"
  /\ top \in inputs
  /\ LocalsInit
  /\ schedule = EmptyDict
  /\ schedule_no_method = EmptyDict
  /\ mapping = EmptyDict
  /\ wrappers = EmptyDict
  /\ tick = NoTick
  /\ new_schedule_index = NoSched
  /\ orig_schedule_index = NoSched
  /\ num_cycles_executed = NoAttr
  /\ hist = <<>>
  /\ ticks_only = 0
  /\ wrapped_SCC = NoRun
  /\ roots = [ r \in Roots |-> NoRoot ]

\* designs for the simulation: the five vertices A, B, P, R, M under a few
\* constraints; the shuffle and the tail give the schedules their shapes
RunPool == { << "all", << "A", "B" >> >>, << "callee", << "A", "m" >> >> }

RunInputs == { MkTop(cs) : cs \in SUBSET RunPool }

InitPass == InitWith(PassInputs)

Init == InitWith(RunInputs)

NextPass ==
  \/ Call
  \/ CollectCallees
  \/ AddConstraint
  \/ AddCalleeConstraint
  \/ DFSVisit
  \/ KosarajuBFS
  \/ Condense
  \/ KahnPop
  \/ EmitSCC
  \/ Assemble
  \/ InstallWrappers

Next ==
  \/ NextPass
  \/ Return
  \/ Tick
  \/ CallMethod
  \/ CallMethodRaises

\* a super-block is called, with the pass long over
InitSCC ==
  /\ pc = "block"
  /\ top = NoTop
  /\ LocalsInit
  /\ schedule = EmptyDict
  /\ schedule_no_method = EmptyDict
  /\ mapping = EmptyDict
  /\ wrappers = EmptyDict
  /\ tick = NoTick
  /\ new_schedule_index = NoSched
  /\ orig_schedule_index = NoSched
  /\ num_cycles_executed = NoAttr
  /\ hist = <<>>
  /\ ticks_only = 0
  /\ wrapped_SCC \in SuperBlockRuns
  /\ roots = [ r \in Roots |-> NoRoot ]

NextSCC ==
  \/ SccIterate
  \/ SccPass
  \/ SccCheck

SpecPass == InitPass /\ [][NextPass]_vars

\* the pass applied to dut and then to ref, as the stateful test does
NextTwice ==
  \/ NextPass
  \/ ApplyToRef

SpecTwice == Init /\ [][NextTwice]_vars

\* dut and ref after the pass was applied to both; the simulation of the two
InitRoots ==
  /\ pc = "roots"
  /\ top = NoTop
  /\ LocalsInit
  /\ schedule = EmptyDict
  /\ schedule_no_method = EmptyDict
  /\ mapping = EmptyDict
  /\ wrappers = EmptyDict
  /\ tick = NoTick
  /\ new_schedule_index = NoSched
  /\ orig_schedule_index = NoSched
  /\ num_cycles_executed = NoAttr
  /\ hist = <<>>
  /\ ticks_only = 0
  /\ wrapped_SCC = NoRun
  /\ \E u \in [ Roots -> RootSchedules ] : \E c \in [ Roots -> RootConfigs ] :
       roots = [ r \in Roots |-> InstalledOn(r, u[r], c[r]) ]

NextRoots ==
  \/ TickRoot
  \/ CallRoot

\* a root the legacy pass has returned from (lines 368-369, 424-470)
InitLegacy ==
  /\ pc = "sim"
  /\ top = NoTop
  /\ LocalsInit
  /\ \E upd \in LegacyUpdateSchedules : \E cfg \in LegacyTails :
       LET sched == ZeroBased(LegacyAssemble(upd, cfg))
           proj  == ZeroBased(FilterNoMethod(LegacyAssemble(upd, cfg)))
       IN  /\ schedule = sched
           /\ schedule_no_method = proj
           /\ mapping = IndexMapping(proj)
           /\ wrappers =
                [ x \in { sched[i].f : i \in CalleeIndices(sched) } |->
                    LegacyWrapper(sched, proj, IndexMapping(proj),
                                  CHOOSE i \in CalleeIndices(sched) :
                                    sched[i].f = x) ]
           /\ tick = [ installed |-> TRUE, schedule |-> proj ]
  /\ new_schedule_index = 0
  /\ orig_schedule_index = 0
  /\ num_cycles_executed = 0
  /\ hist = <<>>
  /\ ticks_only = 0
  /\ wrapped_SCC = NoRun
  /\ roots = [ r \in Roots |-> NoRoot ]

NextLegacy ==
  \/ Tick
  \/ LegacyCallMethod

SpecLegacy == InitLegacy /\ [][NextLegacy]_vars

SpecRoots == InitRoots /\ [][NextRoots]_vars

\* the interpreter goes on executing a running super-block
SpecSCC == InitSCC /\ [][NextSCC]_vars /\ WF_vars(NextSCC)

Spec == Init /\ [][Next]_vars

(***************************************************************************)
(* Vocabulary of the properties, read off the schedule itself.             *)
(***************************************************************************)
\* the pass got past the assertion of line 219
SchedulingComplete == pc \in { "emit", "assemble", "wrap", "done" }

PositionsOf(sched, x) == { k \in 1..Len(sched) : sched[k] = x }

\* the index of callee port x in the final schedule
OrigIndexOf(x) ==
  CHOOSE i \in DOMAIN schedule : IsCalleeElem(schedule[i]) /\ schedule[i].f = x

\* the number of projected elements ahead of schedule index k, which is the
\* projection index of the first function at or after k
ProjectedBefore(k) ==
  Cardinality({ l \in DOMAIN schedule : l < k /\ ~ IsCalleeElem(schedule[l]) })

TargetIndexOf(x) == ProjectedBefore(OrigIndexOf(x))

LastOp == hist[1]
PrevOp == hist[2]

IsCall(rec) == rec.op = "call"
IsTick(rec) == rec.op = "tick"
IsRaise(rec) == rec.op = "raise"

MethodPositions(log) == { k \in 1..Len(log) : log[k].e = "method" }

\* what a call ran before and after its method body
BeforeMethod(log) ==
  SubSeq(log, 1, (CHOOSE k \in MethodPositions(log) : TRUE) - 1)
AfterMethod(log) ==
  SubSeq(log, (CHOOSE k \in MethodPositions(log) : TRUE) + 1, Len(log))

\* projection[from .. to-1], each once, in order
Projection(from, to) == [ k \in 1..(to - from) |-> [ e |-> "blk", i |-> from + k - 1 ] ]

ProjectionLen == Len0(schedule_no_method)

\* the projected blocks at schedule indices lo .. hi, in schedule order
RECURSIVE ProjectedBetween(_, _)
ProjectedBetween(lo, hi) ==
  IF lo > hi THEN <<>>
  ELSE (IF IsCalleeElem(schedule[lo]) THEN <<>>
        ELSE << [ e |-> "blk", i |-> ProjectedBefore(lo) ] >>)
         \o ProjectedBetween(lo + 1, hi)

\* the last two operations are calls, the second of a later port
TwoCallsAscending ==
  /\ pc = "sim" /\ Len(hist) = 2
  /\ IsCall(PrevOp) /\ IsCall(LastOp)
  /\ OrigIndexOf(PrevOp.port) < OrigIndexOf(LastOp.port)

\* a super-block run is under way or over
InRun == pc = "block"

\* some trigger variable is changed in every pass
ChangesForever == \E v \in Variables : wrapped_SCC.changing[v] = Forever

\* the last pass that changes a trigger variable, when no variable changes
\* forever: the variables change in passes 1 .. LastChangingPass and in no
\* later pass
LastChangingPass ==
  CHOOSE n \in 0..(MaxChanging + 1) :
    /\ \A v \in Variables : wrapped_SCC.changing[v] <= n
    /\ \E v \in Variables : wrapped_SCC.changing[v] = n

\* both Kosaraju passes are over and their results are still in scope
AfterKosaraju ==
  pc \in { "condense", "topo", "emit", "assemble", "wrap", "done" }

\* the while loop of lines 197-217 has ended: the assertion of line 219
\* has passed, or it has failed (G_new is set from line 178 on, so an
\* AssertionError with G_new set is the one of line 219)
KahnLoopOver ==
  \/ pc \in { "emit", "assemble", "wrap", "done" }
  \/ pc = "AssertionError" /\ DOMAIN G_new # {}

\* SCC i is trivial and its vertex is an update block
IsBlockSCC(i) == \E x \in SCCs[i] : SCCs[i] = {x} /\ ~ IsCalleePort(x)

\* SCC i is trivial and its vertex is the method or the ready-guard of a
\* non-blocking interface
IsMethodSCC(i) ==
  \E x \in SCCs[i] :
    /\ SCCs[i] = {x}
    /\ x \in DOMAIN method_guard_mapping \cup DOMAIN guard_method_mapping

\* the part of a cycle a schedule element belongs to: 0 the trace clear,
\* 1 the update sweep (a vertex of V or a super-block), 2 the line-trace
\* print, 3 a flip-flop block, 4 a tracing hook, 5 a posedge flip
Section(x) ==
  CASE x.id # 0 -> 1
    [] x.f = "clear_cl_trace" -> 0
    [] x.f \in Blocks \cup Ports -> 1
    [] x.f = "print_line_trace" -> 2
    [] x.f \in FFBlocks -> 3
    [] x.f \in { "vcd_func", "collect_text_sigs" } -> 4
    [] x.f = "flip" -> 5

\* the vertices that the edges Ed lead to from the vertices S, S included
RECURSIVE ReachableFrom(_, _)
ReachableFrom(Ed, S) ==
  LET N == S \cup { e[2] : e \in { d \in Ed : d[1] \in S } }
  IN  IF N = S THEN S ELSE ReachableFrom(Ed, N)

MutuallyReachable(Ed, u, v) ==
  v \in ReachableFrom(Ed, {u}) /\ u \in ReachableFrom(Ed, {v})

\* the edges an adjacency dict holds
GraphEdges(Gr) ==
  { e \in (DOMAIN Gr) \X (DOMAIN Gr) : e[2] \in Range(Gr[e[1]]) }

\* the loops of lines 93-121 are over and G, G_T, E are still in scope
GraphBuilt == pc \in { "dfs", "bfs" } \/ AfterKosaraju

\* the implicit edges of line 79
ImplicitEdges == { << x.rdy, x.method >> : x \in top.nb_ifcs }

\* the position of SCC i in scc_schedule
PopPosition(i) == CHOOSE k \in 1..Len(scc_schedule) : scc_schedule[k] = i

\* the SCCs with an edge to SCC s in the graph of SCCs
CondensedPreds(s) == { j \in DOMAIN G_new : s \in G_new[j] }

\* the right endpoint of the callee constraint c is the raw method of the
\* method port of a non-blocking interface
RightIsGuardedMethod(c) ==
  /\ c[2] \in DOMAIN method_callee_mapping
  /\ method_callee_mapping[c[2]] \in DOMAIN method_guard_mapping

\* the method port and the ready-guard that c's right endpoint stands for
MethodOfRight(c) == method_callee_mapping[c[2]]
GuardOfRight(c) == method_guard_mapping[MethodOfRight(c)]

\* the vertex that c's left endpoint stands for
VertexOfLeft(c) ==
  IF c[1] \in DOMAIN method_callee_mapping
  THEN method_callee_mapping[c[1]] ELSE c[1]

\* the index of the element of the final schedule that runs vertex v: the
\* vertex itself or the super-block it is a member of
ScheduleIndexOf(v) ==
  CHOOSE i \in DOMAIN schedule :
    \/ schedule[i].id = 0 /\ schedule[i].f = v
    \/ schedule[i].id # 0 /\ v \in Range(schedule[i].blks)

\* what a call's log holds after its wrap-around (the rest of the old
\* cycle and the cycle boundary), the whole log when there was none
AfterWrapAround(log) ==
  IF \E k \in DOMAIN log : log[k].e = "cycle"
  THEN SubSeq(log, (CHOOSE k \in DOMAIN log : log[k].e = "cycle") + 1,
              Len(log))
  ELSE log

\* the callee ports the pass registers in method_callee_mapping
RegisteredPorts ==
  NormalCalleePorts(top) \cup { x.method : x \in top.nb_ifcs }
    \cup { x.rdy : x \in top.nb_ifcs }

\* two registered ports hold the same raw method object
DuplicateRegistration ==
  \E x, y \in RegisteredPorts : x # y /\ top.method[x] = top.method[y]

\* the pass is past the registration of the callee ports (lines 67-88)
PastRegistration == pc \notin { "start", "callees" }

\* the update schedule is complete
UpdateScheduleBuilt == pc \in { "assemble", "wrap", "done" }

\* the positions of update_schedule that hold a super-block, and the SCC a
\* position was made from
SuperBlockPositions == { k \in DOMAIN update_schedule : update_schedule[k].id # 0 }
SccAt(k) == SCCs[scc_schedule[k]]

\* the number of edges of E into v from members of scc
InternalIn(v, scc) == Cardinality({ e \in E : e[1] \in scc /\ e[2] = v })

\* the member of scc the spec seeds with: maximal internal in-degree, the
\* smallest name among the tied
SeedByName(scc) ==
  CHOOSE v \in scc :
    /\ \A w \in scc : InternalIn(w, scc) <= InternalIn(v, scc)
    /\ \A w \in scc : InternalIn(w, scc) = InternalIn(v, scc) =>
         NameRank[v] <= NameRank[w]

\* the last two operations were calls of callee ports
TwoCalls ==
  pc = "sim" /\ Len(hist) = 2 /\ IsCall(LastOp) /\ IsCall(PrevOp)

\* callee ports x and y sit at adjacent indices of the schedule, x first
Adjacent(x, y) == OrigIndexOf(y) = OrigIndexOf(x) + 1

\* port x is one of a pair of adjacent callee ports
InAdjacentPair(x) ==
  \E y \in DOMAIN wrappers : Adjacent(x, y) \/ Adjacent(y, x)

\* the number of cycle boundaries in a log
CycleCount(log) == Cardinality({ k \in DOMAIN log : log[k].e = "cycle" })

\* the indices of the projected blocks a log ran, in the order they ran
RECURSIVE BlockIndices(_)
BlockIndices(log) ==
  IF log = <<>> THEN <<>>
  ELSE (IF Head(log).e = "blk" THEN << Head(log).i >> ELSE <<>>)
         \o BlockIndices(Tail(log))

\* n steps of the projection repeated cyclically, begun at index from
CyclicRun(from, n) == [ k \in 1..n |-> (from + k - 1) % ProjectionLen ]

\* only callee ports were called on the root so far, no tick()
OnlyCallsSoFar == pc = "sim" /\ hist # <<>> /\ LastOp.executed >= 0

\* the schedule index of the first callee port after index i, and
\* whether there is one
LaterPorts(i) == { k \in DOMAIN schedule : k > i /\ IsCalleeElem(schedule[k]) }
NextPortIndex(i) == CHOOSE k \in LaterPorts(i) : \A l \in LaterPorts(i) : k <= l

\* the slot in the projection at which a legacy call of the port at index i
\* stops: the slot of the next callee port, the end when none follows
StopSlot(i) ==
  IF LaterPorts(i) = {} THEN ProjectionLen
  ELSE ProjectedBefore(NextPortIndex(i))

(***************************************************************************)
(* C1  Topological correctness: whenever the SCC scheduling has completed, *)
(* for every edge (u, v) of E whose endpoints lie in different SCCs,       *)
(* scc(u) occurs in scc_schedule, scc(v) occurs in it, and every           *)
(* occurrence of scc(u) is before every occurrence of scc(v).              *)
(***************************************************************************)
C1_TopologicalCorrectness ==
  SchedulingComplete =>
    \A e \in E :
      v_SCC[e[1]] # v_SCC[e[2]] =>
        /\ PositionsOf(scc_schedule, v_SCC[e[1]]) # {}
        /\ PositionsOf(scc_schedule, v_SCC[e[2]]) # {}
        /\ \A i \in PositionsOf(scc_schedule, v_SCC[e[1]]) :
             \A j \in PositionsOf(scc_schedule, v_SCC[e[2]]) : i < j

\* the pass completed on a graph with a non-trivial SCC that has an edge
\* into another SCC
C1_Witness ==
  /\ pc = "done"
  /\ \E e \in E : /\ v_SCC[e[1]] # v_SCC[e[2]]
                  /\ Cardinality(SCCs[v_SCC[e[1]]]) > 1

C3_TicksAreCounted ==
  (pc = "sim" /\ ticks_only >= 0) => num_cycles_executed = ticks_only

(***************************************************************************)
(* C4  Method call within a cycle: a call of the port at original index i  *)
(* with target t, entered with orig_idx <= i, ran exactly                  *)
(* projection[new_idx .. t-1] in order and then the method body, left the  *)
(* cursor at (t, i+1) and num_cycles_executed as it was.                   *)
(***************************************************************************)
C4_CallWithinCycle ==
  (pc = "sim" /\ hist # <<>> /\ IsCall(LastOp)
     /\ LastOp.pre.orig <= OrigIndexOf(LastOp.port)) =>
    LET i == OrigIndexOf(LastOp.port)
        t == TargetIndexOf(LastOp.port)
    IN  /\ LastOp.log = Projection(LastOp.pre.new, t)
                          \o << [ e |-> "method", i |-> i ] >>
        /\ new_schedule_index = t
        /\ orig_schedule_index = i + 1
        /\ num_cycles_executed = LastOp.pre.cycles

\* such a call, entered in mid-cycle, that ran at least two blocks
C4_Witness ==
  /\ pc = "sim" /\ hist # <<>> /\ IsCall(LastOp)
  /\ LastOp.pre.orig <= OrigIndexOf(LastOp.port)
  /\ LastOp.pre.new > 0
  /\ TargetIndexOf(LastOp.port) >= LastOp.pre.new + 2

(***************************************************************************)
(* C5  Wrap-around: a call of the port at original index i, entered with   *)
(* orig_idx > i, ran projection[new_idx .. end], incremented               *)
(* num_cycles_executed once, ran projection[0 .. t-1], then the method     *)
(* body, and left the cursor at (t, i+1).                                  *)
(***************************************************************************)
C5_WrapAround ==
  (pc = "sim" /\ hist # <<>> /\ IsCall(LastOp)
     /\ LastOp.pre.orig > OrigIndexOf(LastOp.port)) =>
    LET i == OrigIndexOf(LastOp.port)
        t == TargetIndexOf(LastOp.port)
    IN  /\ LastOp.log = Projection(LastOp.pre.new, ProjectionLen)
                          \o << [ e |-> "cycle", i |-> 0 ] >>
                          \o Projection(0, t)
                          \o << [ e |-> "method", i |-> i ] >>
        /\ new_schedule_index = t
        /\ orig_schedule_index = i + 1
        /\ num_cycles_executed = LastOp.pre.cycles + 1

\* a wrap-around call that had blocks to run on both sides of the boundary
C5_Witness ==
  /\ pc = "sim" /\ hist # <<>> /\ IsCall(LastOp)
  /\ LastOp.pre.orig > OrigIndexOf(LastOp.port)
  /\ LastOp.pre.new < ProjectionLen
  /\ TargetIndexOf(LastOp.port) > 1

(***************************************************************************)
(* C6  Ordering guarantee: when the port at original index i1 is called    *)
(* and then, with nothing in between, the port at i2 > i1, what runs       *)
(* between the two method bodies is exactly the projected blocks whose     *)
(* original index is strictly between i1 and i2, each once, in schedule    *)
(* order.                                                                  *)
(***************************************************************************)
C6_OrderingGuarantee ==
  TwoCallsAscending =>
    AfterMethod(PrevOp.log) \o BeforeMethod(LastOp.log)
      = ProjectedBetween(OrigIndexOf(PrevOp.port) + 1,
                         OrigIndexOf(LastOp.port) - 1)

\* two such calls with at least two blocks between their slots
C6_Witness ==
  /\ TwoCallsAscending
  /\ Len(ProjectedBetween(OrigIndexOf(PrevOp.port) + 1,
                          OrigIndexOf(LastOp.port) - 1)) >= 2

(***************************************************************************)
(* C7  No spill: a wrapped call runs its method body exactly once, as the  *)
(* last thing it does; every block it runs is run before the method body.  *)
(***************************************************************************)
C7_NoSpill ==
  (pc = "sim" /\ hist # <<>> /\ IsCall(LastOp)) =>
    MethodPositions(LastOp.log) = { Len(LastOp.log) }

\* a call that ran blocks ahead of its method, with blocks left between its
\* slot and the next callee port's slot
C7_Witness ==
  /\ pc = "sim" /\ hist # <<>> /\ IsCall(LastOp)
  /\ Len(LastOp.log) > 1
  /\ \E x \in DOMAIN wrappers :
       /\ OrigIndexOf(x) > OrigIndexOf(LastOp.port)
       /\ TargetIndexOf(x) > new_schedule_index

(***************************************************************************)
(* C8  Cycle boundaries: num_cycles_executed changes only in a tick() that *)
(* finishes a full pass or in a call entered with orig_idx above the       *)
(* port's index; each of those raises it by exactly one; a call entered    *)
(* with orig_idx <= the port's index leaves it as it is.                   *)
(***************************************************************************)
C8_CycleBoundaries ==
  (pc = "sim" /\ hist # <<>>) =>
    /\ IsTick(LastOp) => num_cycles_executed = LastOp.pre.cycles + 1
    /\ (IsCall(LastOp) /\ LastOp.pre.orig > OrigIndexOf(LastOp.port)) =>
         num_cycles_executed = LastOp.pre.cycles + 1
    /\ (IsCall(LastOp) /\ LastOp.pre.orig <= OrigIndexOf(LastOp.port)) =>
         num_cycles_executed = LastOp.pre.cycles

\* the part of C8 that is about calls alone: every change of
\* num_cycles_executed is made by a call entered with orig_idx above the
\* port's index, and is a change by one
C8_CallClauses ==
  (pc = "sim" /\ hist # <<>>) =>
    /\ IsTick(LastOp) => num_cycles_executed = LastOp.pre.cycles
    /\ (IsCall(LastOp) /\ LastOp.pre.orig > OrigIndexOf(LastOp.port)) =>
         num_cycles_executed = LastOp.pre.cycles + 1
    /\ (IsCall(LastOp) /\ LastOp.pre.orig <= OrigIndexOf(LastOp.port)) =>
         num_cycles_executed = LastOp.pre.cycles

(***************************************************************************)
(* C9  tick() after a partial cycle: a tick() entered with the cursor a    *)
(* method call left at (t, i+1), t > 0, runs only projection[t .. end],    *)
(* puts the cursor at the start of the next cycle and raises               *)
(* num_cycles_executed by one.                                             *)
(***************************************************************************)
C9_TickCompletesCycle ==
  (pc = "sim" /\ Len(hist) = 2 /\ IsTick(LastOp) /\ IsCall(PrevOp)
     /\ LastOp.pre.new > 0) =>
    /\ LastOp.log = Projection(LastOp.pre.new, ProjectionLen)
    /\ new_schedule_index = 0
    /\ orig_schedule_index = 0
    /\ num_cycles_executed = LastOp.pre.cycles + 1

(***************************************************************************)
(* C10  A tick() runs every element of the projection exactly once, from   *)
(* index 0 to the end, in order, whatever the cursor was on entry, and     *)
(* runs no callee method (no element of the projection is a callee port).  *)
(***************************************************************************)
C10_TickRunsProjection ==
  (pc = "sim" /\ hist # <<>> /\ IsTick(LastOp)) =>
    /\ LastOp.log = Projection(0, ProjectionLen)
    /\ \A k \in DOMAIN schedule_no_method :
         ~ IsCalleeElem(schedule_no_method[k])

\* a tick() entered in mid-cycle, on a schedule that holds callee ports
C10_Witness ==
  /\ pc = "sim" /\ hist # <<>> /\ IsTick(LastOp)
  /\ LastOp.pre.new > 1
  /\ LastOp.pre.new < ProjectionLen
  /\ Len0(schedule) > ProjectionLen

(***************************************************************************)
(* C11  Fail-stop on error: after a wrapped callee-port call in which a    *)
(* prefix block or the method body raised, the whole cursor (new_idx,      *)
(* orig_idx, num_cycles_executed) has the value it had before the call.    *)
(***************************************************************************)
C11_FailStop ==
  pc = "raised" => Cursor = LastOp.pre

\* the part of C11 that the code keeps: the two schedule indices
C11_IndicesKept ==
  pc = "raised" =>
    /\ new_schedule_index = LastOp.pre.new
    /\ orig_schedule_index = LastOp.pre.orig
    /\ (LastOp.pre.orig <= OrigIndexOf(LastOp.port)) =>
         num_cycles_executed = LastOp.pre.cycles

(***************************************************************************)
(* C12  Divergence detection: a super-block whose blocks change some       *)
(* trigger variable in every pass does at most 100 passes over the         *)
(* intra-SCC order; it never does a 101st pass.                            *)
(***************************************************************************)
C12_DivergenceDetection ==
  (InRun /\ ChangesForever) => wrapped_SCC.passes <= MaxIters

(***************************************************************************)
(* C13  Convergence: when the trigger variables change during passes       *)
(* 1 .. n, with 1 <= n < 100, and in no later pass, the super-block        *)
(* returns normally, and it does so after exactly n + 1 passes: it never   *)
(* does more, it does not raise, and it does return.                       *)
(***************************************************************************)
C13_Convergence ==
  /\ []((InRun /\ ~ ChangesForever /\ LastChangingPass \in 1..(MaxIters - 1)) =>
          /\ wrapped_SCC.passes <= LastChangingPass + 1
          /\ wrapped_SCC.line # "UpblkCyclicError"
          /\ wrapped_SCC.line = "returned" =>
               wrapped_SCC.passes = LastChangingPass + 1)
  /\ ((InRun /\ ~ ChangesForever /\ LastChangingPass \in 1..(MaxIters - 1))
        ~> (wrapped_SCC.line = "returned"))

\* a run that stabilised after pass 99 has returned after pass 100
C13_Witness ==
  /\ InRun /\ ~ ChangesForever
  /\ LastChangingPass = MaxIters - 1
  /\ wrapped_SCC.line = "returned"
  /\ wrapped_SCC.passes = MaxIters

(***************************************************************************)
(* C14  Scenario S2 as stated: when the blocks leave every trigger         *)
(* variable unchanged in the first pass, the super-block returns after two *)
(* iterations of its loop.                                                 *)
(***************************************************************************)
C14_TwoIterations ==
  (InRun /\ ~ ChangesForever /\ LastChangingPass = 0
     /\ wrapped_SCC.line = "returned") => wrapped_SCC.num_iters = 2

(***************************************************************************)
(* C14 amended: when the blocks leave every trigger variable unchanged in  *)
(* the first pass, the super-block returns after one iteration of its      *)
(* loop, having run the intra-SCC order once.                              *)
(***************************************************************************)
C14_OneIteration ==
  (InRun /\ ~ ChangesForever /\ LastChangingPass = 0) =>
    /\ wrapped_SCC.num_iters <= 1
    /\ wrapped_SCC.passes <= 1
    /\ wrapped_SCC.line # "UpblkCyclicError"
    /\ wrapped_SCC.line = "returned" =>
         (wrapped_SCC.num_iters = 1 /\ wrapped_SCC.passes = 1
            /\ wrapped_SCC.calls = wrapped_SCC.scc)

C14_Witness ==
  /\ InRun /\ ~ ChangesForever /\ LastChangingPass = 0
  /\ wrapped_SCC.line = "returned"
  /\ wrapped_SCC.calls = << "A", "B" >>

(***************************************************************************)
(* C15  SCC partition: after the two Kosaraju passes v_SCC is defined for  *)
(* every vertex of V (and for nothing else), every SCC is a non-empty set  *)
(* of vertices, two different SCCs share no vertex, the SCCs together are  *)
(* V, and every vertex is a member of the SCC v_SCC names for it.          *)
(***************************************************************************)
C15_SCCPartition ==
  AfterKosaraju =>
    /\ DOMAIN v_SCC = V
    /\ \A i \in DOMAIN SCCs : SCCs[i] # {} /\ SCCs[i] \subseteq V
    /\ \A i, j \in DOMAIN SCCs : i # j => SCCs[i] \cap SCCs[j] = {}
    /\ UNION { SCCs[i] : i \in DOMAIN SCCs } = V
    /\ \A v \in V : v_SCC[v] \in DOMAIN SCCs /\ v \in SCCs[v_SCC[v]]

\* the second pass has just ended with a two-vertex SCC among others
C15_Witness ==
  /\ pc = "condense"
  /\ \E i \in DOMAIN SCCs : Cardinality(SCCs[i]) = 2
  /\ Len0(SCCs) = Cardinality(V) - 1

(***************************************************************************)
(* C16  Scheduling invariant: when the Kahn loop has ended, scc_schedule   *)
(* holds every SCC id exactly once, so the assertion                       *)
(* len(scc_schedule) == len(SCCs) of line 219 does not fail.               *)
(***************************************************************************)
C16_SchedulingInvariant ==
  KahnLoopOver =>
    /\ pc # "AssertionError"
    /\ Len(scc_schedule) = Len0(SCCs)
    /\ \A i \in DOMAIN SCCs : Cardinality(PositionsOf(scc_schedule, i)) = 1

(***************************************************************************)
(* C17  Method-preference tie-break: in every step of the Kahn loop that   *)
(* pops from a frontier Q holding both a trivial SCC of an update block    *)
(* and a trivial SCC of an NB method or ready-guard, the SCC appended to   *)
(* scc_schedule is not the method or guard one.                            *)
(***************************************************************************)
C17_MethodPreference ==
  [][ ( /\ pc = "topo"
        /\ \E k \in 1..Len(Q) : IsBlockSCC(Q[k])
        /\ \E k \in 1..Len(Q) : IsMethodSCC(Q[k])
        /\ Len(scc_schedule') = Len(scc_schedule) + 1 )
      => ~ IsMethodSCC(scc_schedule'[Len(scc_schedule')]) ]_vars

(***************************************************************************)
(* C18  Valid projected target: for every callee port of the final         *)
(* schedule, also one that is its last element, the wrapper installation   *)
(* finds a non-callee element after the port, map_next_func is an index    *)
(* of the projection, and the installation does not fail.                  *)
(***************************************************************************)
C18_ValidProjectedTarget ==
  /\ pc # "IndexError"
  /\ pc \in { "wrap", "done" } =>
       \A i \in CalleeIndices(schedule) :
         /\ NextFunc(schedule, i) < Len0(schedule)
         /\ mapping[schedule[NextFunc(schedule, i)]] \in
              0..(Len0(schedule_no_method) - 1)

\* the part of C18 that holds: when the installation succeeds, every
\* wrapper's target is an index of the projection
C18_TargetsOfInstalledWrappers ==
  pc = "done" =>
    \A x \in DOMAIN wrappers :
      wrappers[x].my_idx_new \in 0..(Len0(schedule_no_method) - 1)

(***************************************************************************)
(* C19  Projection fidelity: the methodless projection is the final        *)
(* schedule without its callee ports: the non-callee element at schedule   *)
(* index i is the projection's element number (count of non-callee         *)
(* elements before i), no projected element is a callee port, each occurs  *)
(* once, len(projection) + (number of callee ports) = len(schedule), and   *)
(* the index map sends every projected element to its own position.        *)
(***************************************************************************)
C19_ProjectionFidelity ==
  pc \in { "wrap", "done" } =>
    /\ Len0(schedule_no_method) + Cardinality(CalleeIndices(schedule))
         = Len0(schedule)
    /\ \A i \in DOMAIN schedule \ CalleeIndices(schedule) :
         /\ ProjectedBefore(i) \in DOMAIN schedule_no_method
         /\ schedule_no_method[ProjectedBefore(i)] = schedule[i]
    /\ \A k \in DOMAIN schedule_no_method :
         /\ ~ IsCalleeElem(schedule_no_method[k])
         /\ \A l \in DOMAIN schedule_no_method :
              schedule_no_method[l] = schedule_no_method[k] => l = k
         /\ schedule_no_method[k] \in DOMAIN mapping
         /\ mapping[schedule_no_method[k]] = k
    /\ DOMAIN mapping =
         { schedule_no_method[k] : k \in DOMAIN schedule_no_method }

\* a schedule with a super-block, a normal port and an interface port
C19_Witness ==
  /\ pc = "done"
  /\ \E i \in DOMAIN schedule : schedule[i].id # 0
  /\ \E i, j \in CalleeIndices(schedule) :
       schedule[i].f = "P" /\ schedule[j].f = "M" /\ i < j

C20_ScheduledPortsWrapped ==
  pc = "done" =>
    /\ \A i, j \in CalleeIndices(schedule) :
         schedule[i].f = schedule[j].f => i = j
    /\ DOMAIN wrappers = { schedule[i].f : i \in CalleeIndices(schedule) }
    /\ \A i \in CalleeIndices(schedule) :
         wrappers[schedule[i].f].my_idx_orig = i

(***************************************************************************)
(* C25  Per-cycle assembly order: in the final schedule clear_cl_trace is  *)
(* the first element and the only trace clear, and the elements come in    *)
(* the order update sweep, line-trace print, flip-flop blocks, tracing     *)
(* hooks, posedge-flip blocks; so no flip-flop block is ahead of an        *)
(* element of the update sweep.                                            *)
(***************************************************************************)
C25_AssemblyOrder ==
  pc \in { "wrap", "done" } =>
    /\ schedule[0] = Elem("clear_cl_trace")
    /\ \A i \in DOMAIN schedule : Section(schedule[i]) = 0 => i = 0
    /\ \A i, j \in DOMAIN schedule :
         i < j => Section(schedule[i]) <= Section(schedule[j])

\* a schedule with an element of every section, a super-block among them
C25_Witness ==
  /\ pc = "done"
  /\ { Section(schedule[i]) : i \in DOMAIN schedule } = 0..5
  /\ \E i \in DOMAIN schedule : schedule[i].id # 0

(***************************************************************************)
(* C27  SCCs are those of (V, E): after the two Kosaraju passes two        *)
(* vertices have the same v_SCC id if and only if each is reachable from   *)
(* the other along edges of E, the implicit rdy -> method edges included.  *)
(***************************************************************************)
C27_SCCsOfE ==
  AfterKosaraju =>
    \A u, v \in V : (v_SCC[u] = v_SCC[v]) <=> MutuallyReachable(E, u, v)

\* what the two passes do compute: the SCCs of the graph held in G
C27_SCCsOfG ==
  AfterKosaraju =>
    \A u, v \in V :
      (v_SCC[u] = v_SCC[v]) <=> MutuallyReachable(GraphEdges(G), u, v)

(***************************************************************************)
(* C28  Adjacency mirrors the edge set: when the graph construction has    *)
(* ended, for all u, v in V: (u, v) is in E iff v occurs in G[u] iff u     *)
(* occurs in G_T[v]; and every edge of E has both endpoints in V.          *)
(***************************************************************************)
C28_AdjacencyMirrorsE ==
  GraphBuilt =>
    /\ \A u, v \in V :
         /\ (<< u, v >> \in E) <=> (v \in Range(G[u]))
         /\ (v \in Range(G[u])) <=> (u \in Range(G_T[v]))
    /\ \A e \in E : e[1] \in V /\ e[2] \in V

\* the part of C28 that holds: G_T mirrors G, the edges of G are edges of
\* E, and the edges of E that G lacks are implicit ones
C28_AdjacencyWithoutImplicit ==
  GraphBuilt =>
    /\ \A u, v \in V : (v \in Range(G[u])) <=> (u \in Range(G_T[v]))
    /\ GraphEdges(G) \subseteq E
    /\ E \ GraphEdges(G) \subseteq ImplicitEdges
    /\ \A e \in E : e[1] \in V /\ e[2] \in V

(***************************************************************************)
(* C30  Predecessor recording, first drainer wins: when the topological    *)
(* sort has scheduled every SCC, scc_pred of an SCC with condensed         *)
(* predecessors is the one of them that was popped first, and scc_pred of  *)
(* an SCC without predecessors is None.                                    *)
(***************************************************************************)
C30_FirstDrainerWins ==
  SchedulingComplete =>
    \A s \in DOMAIN SCCs :
      IF CondensedPreds(s) = {} THEN scc_pred[s] = None
      ELSE /\ scc_pred[s] \in CondensedPreds(s)
           /\ \A j \in CondensedPreds(s) :
                PopPosition(scc_pred[s]) <= PopPosition(j)

(***************************************************************************)
(* C30 amended: when the topological sort has scheduled every SCC,         *)
(* scc_pred of an SCC with condensed predecessors is the one of them that  *)
(* was popped last (the pop that brought its in-degree to zero), and       *)
(* scc_pred of an SCC without predecessors is None.                        *)
(***************************************************************************)
C30_LastDrainerRecorded ==
  SchedulingComplete =>
    \A s \in DOMAIN SCCs :
      IF CondensedPreds(s) = {} THEN scc_pred[s] = None
      ELSE /\ scc_pred[s] \in CondensedPreds(s)
           /\ \A j \in CondensedPreds(s) :
                PopPosition(j) <= PopPosition(scc_pred[s])

\* the sort is over and some SCC has two condensed predecessors
C30_Witness ==
  /\ pc = "emit"
  /\ \E s \in DOMAIN SCCs :
       /\ Cardinality(CondensedPreds(s)) = 2
       /\ scc_pred[s] \in CondensedPreds(s)

(***************************************************************************)
(* C29  Constraint redirection to the guard: a step of the loop over the   *)
(* top-level callee constraints that handles a constraint (x, y) whose     *)
(* right endpoint stands for an NB method m with ready-guard r adds to E   *)
(* the edge (x', r) when x' is in V, and adds no other edge, (x', m) in    *)
(* particular; and in the final schedule x' is ahead of r, and r ahead of  *)
(* m, whenever x' and r are in different SCCs.                             *)
(***************************************************************************)
C29_RedirectionToGuard ==
  /\ [][ \A c \in todo :
           ( /\ pc = "callee_constraints"
             /\ todo' = todo \ {c}
             /\ RightIsGuardedMethod(c) ) =>
             /\ E' \ E \subseteq { << VertexOfLeft(c), GuardOfRight(c) >> }
             /\ VertexOfLeft(c) \in V =>
                  << VertexOfLeft(c), GuardOfRight(c) >> \in E' ]_vars
  /\ [] ( pc = "done" =>
            \A c \in top.top_level_callee_constraints :
              ( /\ RightIsGuardedMethod(c)
                /\ VertexOfLeft(c) \in V
                /\ v_SCC[VertexOfLeft(c)] # v_SCC[GuardOfRight(c)] ) =>
                /\ ScheduleIndexOf(VertexOfLeft(c))
                     < ScheduleIndexOf(GuardOfRight(c))
                /\ ScheduleIndexOf(GuardOfRight(c))
                     < ScheduleIndexOf(MethodOfRight(c)) )

\* the pass is done on a design with two redirected constraints, each from
\* an update block that lands in another SCC than the guard
C29_Witness ==
  /\ pc = "done"
  /\ \E c, d \in top.top_level_callee_constraints :
       /\ RightIsGuardedMethod(c) /\ RightIsGuardedMethod(d)
       /\ VertexOfLeft(c) \in Blocks
       /\ v_SCC[VertexOfLeft(c)] # v_SCC[GuardOfRight(c)]
       /\ << VertexOfLeft(c), GuardOfRight(c) >> \in E
       /\ << VertexOfLeft(c), MethodOfRight(c) >> \notin E
       /\ VertexOfLeft(d) \in Blocks /\ c # d

(***************************************************************************)
(* C21  Method-call equivalence: what tick(); m(); tick() runs, the        *)
(* wrap-around of the call left aside, is one full pass over the           *)
(* projection followed by one pass with the body of m at its slot:         *)
(* projection[0 .. t-1], m, projection[t .. end].                          *)
(***************************************************************************)
C21_MethodCallEquivalence ==
  (pc = "sim" /\ Len(hist) = 2 /\ IsTick(LastOp) /\ IsCall(PrevOp)
     /\ PrevOp.after.op = "tick") =>
    PrevOp.after.log \o AfterWrapAround(PrevOp.log) \o LastOp.log
      = Projection(0, ProjectionLen)
          \o Projection(0, TargetIndexOf(PrevOp.port))
          \o << MethodEvent(OrigIndexOf(PrevOp.port)) >>
          \o Projection(TargetIndexOf(PrevOp.port), ProjectionLen)

(***************************************************************************)
(* C22  Pass-order error: the pass applied to a root whose DAG has no      *)
(* all_constraints raises PassOrderError with the argument                 *)
(* "all_constraints" and leaves the root without _sched, tick,             *)
(* num_cycles_executed and method wrappers.                                *)
(***************************************************************************)
C22_PassOrderError ==
  (~ top.has_all_constraints /\ pc # "start") =>
    /\ pc = "PassOrderError(all_constraints)"
    /\ new_schedule_index = NoSched
    /\ orig_schedule_index = NoSched
    /\ tick = NoTick
    /\ num_cycles_executed = NoAttr
    /\ wrappers = EmptyDict

\* the pass was applied to a root without all_constraints and has raised
C22_Witness ==
  /\ ~ top.has_all_constraints
  /\ pc \notin { "start", "callees" }

(***************************************************************************)
(* C23  Duplicate method registration is fatal: when two registered        *)
(* callee ports (a normal port, the method or the rdy of an NB interface)  *)
(* hold the same raw method, the pass ends in an assertion failure during  *)
(* the registration and never goes on with an overwritten mapping.         *)
(***************************************************************************)
C23_DuplicateRegistrationFatal ==
  (DuplicateRegistration /\ PastRegistration) => pc = "AssertionError"

\* the part of C23 the code has: a raw method shared by the method port of
\* an interface and a port registered before it is fatal
C23_MethodDuplicateFatal ==
  ( /\ PastRegistration
    /\ \E ifc \in top.nb_ifcs : \E x \in NormalCalleePorts(top) :
         top.method[x] = top.method[ifc.method] ) =>
    pc = "AssertionError"

(***************************************************************************)
(* C24  Reproducibility for one seed: the pass applied twice in one        *)
(* process to roots with the same (V, E) computes the same order both      *)
(* times: the same sequence of SCCs and the same update schedule.          *)
(***************************************************************************)
C24_Reproducible ==
  (pc = "done" /\ roots["dut"].applied) =>
    /\ roots["dut"].scc_order = Installed("ref").scc_order
    /\ roots["dut"].update_schedule = update_schedule

(***************************************************************************)
(* C26  Independent roots: a tick() or a method call on one of two         *)
(* elaborated roots leaves the other root's new_schedule_index,            *)
(* orig_schedule_index and num_cycles_executed as they were and runs none  *)
(* of the other root's blocks.                                             *)
(***************************************************************************)
C26_IndependentRoots ==
  [][ pc = "roots" =>
        \A o \in Roots \ { hist'[1].on } :
          /\ roots'[o].new = roots[o].new
          /\ roots'[o].orig = roots[o].orig
          /\ roots'[o].cycles = roots[o].cycles
          /\ \A k \in DOMAIN hist'[1].log : hist'[1].log[k].root # o ]_vars

\* a call on dut that ran blocks and moved dut's cursor, after ref was
\* taken into its second cycle
C26_Witness ==
  /\ pc = "roots"
  /\ hist # <<>>
  /\ hist[1].op = "call" /\ hist[1].on = "dut"
  /\ \E k \in DOMAIN hist[1].log : hist[1].log[k].e = "blk"
  /\ roots["dut"].new > 0 /\ roots["dut"].cycles = 0
  /\ roots["ref"].cycles = 1 /\ roots["ref"].orig > 0

(***************************************************************************)
(* C31  Intra-SCC order is a permutation: the tmp_schedule of every        *)
(* super-block holds every member of its SCC exactly once.                 *)
(***************************************************************************)
C31_IntraOrderIsPermutation ==
  UpdateScheduleBuilt =>
    \A k \in SuperBlockPositions :
      /\ Range(update_schedule[k].blks) = SccAt(k)
      /\ Len(update_schedule[k].blks) = Cardinality(SccAt(k))

(***************************************************************************)
(* C32  Seed without predecessor: the tmp_schedule of a super-block whose  *)
(* SCC has no predecessor starts with the member of maximal internal       *)
(* in-degree, the one with the smallest name among the tied.               *)
(***************************************************************************)
C32_SeedWithoutPredecessor ==
  UpdateScheduleBuilt =>
    \A k \in SuperBlockPositions :
      scc_pred[scc_schedule[k]] = None =>
        /\ update_schedule[k].blks # <<>>
        /\ update_schedule[k].blks[1] = SeedByName(SccAt(k))

\* the part of C32 the code has: the first element has maximal internal
\* in-degree
C32_SeedHasMaximalInDegree ==
  UpdateScheduleBuilt =>
    \A k \in SuperBlockPositions :
      scc_pred[scc_schedule[k]] = None =>
        /\ update_schedule[k].blks # <<>>
        /\ \A w \in SccAt(k) :
             InternalIn(w, SccAt(k))
               <= InternalIn(update_schedule[k].blks[1], SccAt(k))

(***************************************************************************)
(* C33  Fixed-point exit condition: the super-block returns only at the    *)
(* end of a pass that left every trigger variable at the value it had at   *)
(* the start of that pass; the snapshot is retaken at the start of every   *)
(* pass; a pass that changed a trigger variable is followed by another     *)
(* pass or by the combinational-loop error.                                *)
(***************************************************************************)
C33_FixedPointExit ==
  /\ [] ( (InRun /\ wrapped_SCC.line = "returned") =>
            \A v \in Variables : wrapped_SCC.val[v] = wrapped_SCC.t[v] )
  /\ [][ (InRun /\ wrapped_SCC.line = "while") =>
           /\ wrapped_SCC'.t = wrapped_SCC.val
           /\ wrapped_SCC'.val = wrapped_SCC.val
           /\ wrapped_SCC'.line = "for" ]_vars
  /\ [][ (InRun /\ wrapped_SCC.line = "for") =>
           /\ wrapped_SCC'.t = wrapped_SCC.t
           /\ wrapped_SCC'.passes = wrapped_SCC.passes + 1
           /\ wrapped_SCC'.line = "if" ]_vars
  /\ [][ ( /\ InRun /\ wrapped_SCC.line = "if"
           /\ \E v \in Variables : wrapped_SCC.val[v] # wrapped_SCC.t[v] ) =>
           wrapped_SCC'.line \in { "while", "UpblkCyclicError" } ]_vars
  /\ (InRun /\ wrapped_SCC.line = "while") ~> (wrapped_SCC.line = "if")

\* a run that returned after passes in which both variables changed
C33_Witness ==
  /\ InRun
  /\ wrapped_SCC.line = "returned"
  /\ wrapped_SCC.passes = 4
  /\ wrapped_SCC.changing["x"] = 3
  /\ wrapped_SCC.changing["y"] = 2

(***************************************************************************)
(* C34  Ready-guard immediately before its method: in the final schedule   *)
(* the element directly ahead of the method port of an NB interface is     *)
(* the interface's rdy port.                                               *)
(***************************************************************************)
C34_GuardDirectlyBeforeMethod ==
  (pc \in { "wrap", "done" }) =>
    \A ifc \in top.nb_ifcs :
      \A i \in DOMAIN schedule :
        schedule[i] = Elem(ifc.method) =>
          /\ i - 1 \in DOMAIN schedule
          /\ schedule[i - 1] = Elem(ifc.rdy)

(***************************************************************************)
(* C35  Method call after a tick: a tick() leaves the cursor at the start  *)
(* of a cycle, (0, 0), whatever calls came before it, and a callee-port    *)
(* call that follows a tick() runs exactly projection[0 .. t-1] and the    *)
(* method body, without the wrap-around branch.                            *)
(***************************************************************************)
C35_CallAfterTick ==
  /\ (pc = "sim" /\ hist # <<>> /\ IsTick(LastOp)) =>
       (new_schedule_index = 0 /\ orig_schedule_index = 0)
  /\ (pc = "sim" /\ Len(hist) = 2 /\ IsCall(LastOp) /\ IsTick(PrevOp)) =>
       /\ LastOp.pre.new = 0 /\ LastOp.pre.orig = 0
       /\ LastOp.log = Projection(0, TargetIndexOf(LastOp.port))
                         \o << MethodEvent(OrigIndexOf(LastOp.port)) >>
       /\ num_cycles_executed = LastOp.pre.cycles

(***************************************************************************)
(* C36  Consecutive callee ports: for callee ports at adjacent indices i   *)
(* and i+1 of the schedule, the first called and then the second runs no   *)
(* projected block between the two method bodies and leaves                *)
(* num_cycles_executed as it is; the same port called twice in a row, or   *)
(* the second and then the first, takes the wrap-around branch and raises  *)
(* num_cycles_executed by exactly one.                                     *)
(***************************************************************************)
C36_ConsecutiveCalleePorts ==
  TwoCalls =>
    /\ Adjacent(PrevOp.port, LastOp.port) =>
         /\ TargetIndexOf(PrevOp.port) = TargetIndexOf(LastOp.port)
         /\ AfterMethod(PrevOp.log) = <<>>
         /\ LastOp.log = << MethodEvent(OrigIndexOf(LastOp.port)) >>
         /\ num_cycles_executed = LastOp.pre.cycles
    /\ ( \/ Adjacent(LastOp.port, PrevOp.port)
         \/ (LastOp.port = PrevOp.port /\ InAdjacentPair(LastOp.port)) ) =>
         /\ CycleCount(LastOp.log) = 1
         /\ num_cycles_executed = LastOp.pre.cycles + 1

\* the rdy and method ports at adjacent indices: rdy then method, and the
\* schedule has blocks on both sides of the pair
C36_Witness ==
  /\ TwoCalls
  /\ Adjacent(PrevOp.port, LastOp.port)
  /\ TargetIndexOf(LastOp.port) > 1
  /\ TargetIndexOf(LastOp.port) < ProjectionLen

\* the second of two adjacent ports, then the first
C36_WitnessReversed ==
  /\ TwoCalls
  /\ Adjacent(LastOp.port, PrevOp.port)

(***************************************************************************)
(* C37  Cyclic execution order under method calls: while only callee ports *)
(* are called, the blocks a call runs continue the projection, repeated    *)
(* cyclically, where the calls before it stopped (so all the executions    *)
(* together are a prefix of the cyclic repetition), and between calls the  *)
(* number of block executions so far is                                    *)
(* num_cycles_executed * len(projection) + new_idx.                        *)
(***************************************************************************)
C37_CyclicExecutionOrder ==
  OnlyCallsSoFar =>
    /\ LastOp.executed
         = num_cycles_executed * ProjectionLen + new_schedule_index
    /\ BlockIndices(LastOp.log)
         = CyclicRun(LastOp.executed - BlocksIn(LastOp.log),
                     BlocksIn(LastOp.log))

\* a call that ran blocks on both sides of a cycle boundary, after another
\* call
C37_Witness ==
  /\ OnlyCallsSoFar
  /\ Len(hist) = 2
  /\ CycleCount(LastOp.log) = 1
  /\ LastOp.pre.new > 0 /\ LastOp.pre.new < ProjectionLen
  /\ new_schedule_index > 1

(***************************************************************************)
(* C38  Guard check and method share a cycle: the wrapped rdy() of an NB   *)
(* interface called and then, with no call in between, its wrapped         *)
(* method(): the second call crosses no cycle boundary, and                *)
(* num_cycles_executed after it is what it was after the rdy().            *)
(***************************************************************************)
C38_GuardAndMethodShareCycle ==
  ( /\ TwoCalls
    /\ PrevOp.port = TheIfc.rdy
    /\ LastOp.port = TheIfc.method ) =>
    /\ CycleCount(LastOp.log) = 0
    /\ num_cycles_executed = LastOp.pre.cycles

\* rdy() then method() with blocks between the two slots, the rdy() call
\* having wrapped into a new cycle
C38_Witness ==
  /\ TwoCalls
  /\ PrevOp.port = TheIfc.rdy
  /\ LastOp.port = TheIfc.method
  /\ CycleCount(PrevOp.log) = 1
  /\ BlocksIn(LastOp.log) >= 1

(***************************************************************************)
(* C39  Cursor bounds: after the pass, under any interleaving of tick()    *)
(* and callee-port calls, 0 <= new_idx < len(projection) (or new_idx = 0)  *)
(* and 0 <= orig_idx <= len(schedule); the two and num_cycles_executed     *)
(* start at 0; num_cycles_executed never decreases.                        *)
(***************************************************************************)
C39_CursorBounds ==
  /\ [] ( pc \in { "done", "sim", "raised" } =>
            /\ 0 <= new_schedule_index
            /\ new_schedule_index < ProjectionLen \/ new_schedule_index = 0
            /\ 0 <= orig_schedule_index
            /\ orig_schedule_index <= Len0(schedule)
            /\ 0 <= num_cycles_executed )
  /\ [] ( (pc \in { "done", "sim" } /\ hist = <<>>) =>
            /\ new_schedule_index = 0
            /\ orig_schedule_index = 0
            /\ num_cycles_executed = 0 )
  /\ [][ pc = "sim" => num_cycles_executed' >= num_cycles_executed ]_vars

\* the cursor at its upper bounds: the last callee port of the schedule was
\* called, its target the last element of the projection, in the second
\* cycle
C39_Witness ==
  /\ pc = "sim"
  /\ new_schedule_index = ProjectionLen - 1
  /\ \E x \in DOMAIN wrappers :
       /\ orig_schedule_index = OrigIndexOf(x) + 1
       /\ \A y \in DOMAIN wrappers : OrigIndexOf(y) <= OrigIndexOf(x)
  /\ num_cycles_executed >= 1

(***************************************************************************)
(* C40  Legacy wrapper: after the method body the wrapper runs the         *)
(* projected blocks up to the slot of the next callee port (to the end     *)
(* when none follows) and sets orig_idx to the next callee port's index;   *)
(* when it reached the end of the projection it puts the cursor back to    *)
(* (0, 0) and adds one to num_cycles_executed; after every call            *)
(* new_idx < len(projection).                                              *)
(***************************************************************************)
C40_LegacyWrapper ==
  (pc = "sim" /\ hist # <<>> /\ IsCall(LastOp)) =>
    LET i    == OrigIndexOf(LastOp.port)
        t    == TargetIndexOf(LastOp.port)
        stop == StopSlot(i)
        wrap == CycleCount(BeforeMethod(LastOp.log))
    IN  /\ IF stop = ProjectionLen
           THEN /\ AfterMethod(LastOp.log)
                     = Projection(t, stop) \o << CycleEvent >>
                /\ new_schedule_index = 0
                /\ orig_schedule_index = 0
                /\ num_cycles_executed = LastOp.pre.cycles + wrap + 1
           ELSE /\ AfterMethod(LastOp.log) = Projection(t, stop)
                /\ new_schedule_index = stop
                /\ orig_schedule_index = NextPortIndex(i)
                /\ num_cycles_executed = LastOp.pre.cycles + wrap
        /\ new_schedule_index < ProjectionLen

\* a call of the last callee port that ran blocks after its method to the
\* end of the projection
C40_Witness ==
  /\ pc = "sim" /\ hist # <<>> /\ IsCall(LastOp)
  /\ LaterPorts(OrigIndexOf(LastOp.port)) = {}
  /\ Len(AfterMethod(LastOp.log)) >= 3
  /\ new_schedule_index = 0
  /\ num_cycles_executed = LastOp.pre.cycles + 1

\* a call that stopped at the slot of the next callee port, in mid-cycle
C40_WitnessMidCycle ==
  /\ pc = "sim" /\ hist # <<>> /\ IsCall(LastOp)
  /\ LaterPorts(OrigIndexOf(LastOp.port)) # {}
  /\ Len(AfterMethod(LastOp.log)) >= 1
  /\ new_schedule_index > 0

=============================================================================
